---- MODULE Spec2Model ----
(***************************************************************************)
(* Producer Pal API client (api-layer/api_layer/client.py).                *)
(*                                                                         *)
(* Texts (HTTP bodies, content-type values, the inner text of a content    *)
(* block, the base URL) are sequences of one-character strings, so that    *)
(* str.strip, str.split, str.startswith, re.sub and json.loads are         *)
(* computed character by character as the code computes them.              *)
(*                                                                         *)
(* JSON values are tagged records:                                         *)
(*   [t |-> "null"], [t |-> "bool", v |-> BOOLEAN], [t |-> "num", v |-> Int]*)
(*   [t |-> "float", v |-> <<m, k>>] for the float m / 10^k,               *)
(*   [t |-> "str", v |-> text], [t |-> "arr", v |-> sequence of values],   *)
(*   [t |-> "obj", v |-> function from key text to value].                 *)
(* Number literals are integers or have a fraction part; the texts the     *)
(* model draws contain no exponent outside string literals.                *)
(***************************************************************************)
EXTENDS Integers, Sequences, FiniteSets, TLC

\* ------------------------------------------------------------- characters

QUOTE == "\""
BSLASH == "\\"
NL == "\n"
SP == " "

Digits == {"0", "1", "2", "3", "4", "5", "6", "7", "8", "9"}

Letters ==
    {"a", "b", "c", "d", "e", "f", "g", "h", "i", "j", "k", "l", "m",
     "n", "o", "p", "q", "r", "s", "t", "u", "v", "w", "x", "y", "z",
     "A", "B", "C", "D", "E", "F", "G", "H", "I", "J", "K", "L", "M",
     "N", "O", "P", "Q", "R", "S", "T", "U", "V", "W", "X", "Y", "Z"}

\* \w of the re module on str patterns
WordChars == Letters \cup Digits \cup {"_"}

\* whitespace removed by str.strip()
StripChars == {SP, NL, "\t", "\r", "\f"}

\* whitespace skipped by the json scanner
JsonWs == {SP, NL, "\t", "\r"}

DigitVal(c) ==
    CASE c = "0" -> 0 [] c = "1" -> 1 [] c = "2" -> 2 [] c = "3" -> 3
      [] c = "4" -> 4 [] c = "5" -> 5 [] c = "6" -> 6 [] c = "7" -> 7
      [] c = "8" -> 8 [] c = "9" -> 9

\* --------------------------------------------------------------- JSON values

JNull == [t |-> "null"]
JBool(b) == [t |-> "bool", v |-> b]
JNum(n) == [t |-> "num", v |-> n]
\* the float m / 10^k, with no trailing zero kept in the fraction
RECURSIVE JFloat(_, _)
JFloat(m, k) ==
    IF k > 0 /\ m % 10 = 0 THEN JFloat(m \div 10, k - 1)
    ELSE [t |-> "float", v |-> <<m, k>>]

JStr(s) == [t |-> "str", v |-> s]
JArr(a) == [t |-> "arr", v |-> a]
JObj(f) == [t |-> "obj", v |-> f]

EmptyDict == JObj(<<>>)

\* isinstance(x, dict)
IsDict(x) == x.t = "obj"

\* d[k] = v on a dict: a later duplicate key overwrites an earlier one
DictPut(f, k, val) == [x \in (DOMAIN f) \cup {k} |-> IF x = k THEN val ELSE f[x]]

\* dict.get(key, default)
DictGet(d, key, default) == IF key \in DOMAIN d.v THEN d.v[key] ELSE default

\* bool(x) on a decoded JSON value
Truthy(x) ==
    CASE x.t = "null" -> FALSE
      [] x.t = "bool" -> x.v
      [] x.t = "num" -> x.v # 0
      [] x.t = "float" -> x.v[1] # 0
      [] x.t = "str" -> x.v # <<>>
      [] x.t = "arr" -> x.v # <<>>
      [] x.t = "obj" -> DOMAIN x.v # {}

\* == on decoded JSON values
RECURSIVE JEq(_, _)
JEq(a, b) ==
    IF a.t = "num" /\ b.t = "float" THEN b.v = <<a.v, 0>>
    ELSE IF a.t = "float" /\ b.t = "num" THEN a.v = <<b.v, 0>>
    ELSE
    /\ a.t = b.t
    /\ CASE a.t = "null" -> TRUE
         [] a.t \in {"bool", "num", "float", "str"} -> a.v = b.v
         [] a.t = "arr" ->
              /\ Len(a.v) = Len(b.v)
              /\ \A i \in 1..Len(a.v) : JEq(a.v[i], b.v[i])
         [] a.t = "obj" ->
              /\ DOMAIN a.v = DOMAIN b.v
              /\ \A k \in DOMAIN a.v : JEq(a.v[k], b.v[k])

\* ------------------------------------------------------------- json.loads

ParseFail(i) == [ok |-> FALSE, val |-> JNull, pos |-> i]
ParseOk(val, i) == [ok |-> TRUE, val |-> val, pos |-> i]

\* the first position from i on whose character is in (is not in) set C, or
\* Len(s) + 1 when there is none
FirstIn(s, i, C) ==
    IF \E j \in i..Len(s) : s[j] \in C
        THEN CHOOSE j \in i..Len(s) : s[j] \in C /\ \A k \in i..(j - 1) : s[k] \notin C
        ELSE Len(s) + 1

FirstNotIn(s, i, C) ==
    IF \E j \in i..Len(s) : s[j] \notin C
        THEN CHOOSE j \in i..Len(s) : s[j] \notin C /\ \A k \in i..(j - 1) : s[k] \in C
        ELSE Len(s) + 1

SkipWs(s, i) == FirstNotIn(s, i, JsonWs)

\* the character an escape sequence \c stands for; <<>> when it is invalid
Unescape(c) ==
    CASE c \in {QUOTE, BSLASH, "/"} -> <<c>>
      [] c = "n" -> <<NL>>
      [] c = "t" -> <<"\t">>
      [] c = "r" -> <<"\r">>
      [] OTHER -> <<>>

\* the concatenation of the sequences chunks[lo], ..., chunks[hi]
RECURSIVE ConcatRange(_, _, _)
ConcatRange(chunks, lo, hi) ==
    IF lo > hi THEN <<>>
    ELSE IF lo = hi THEN chunks[lo]
    ELSE LET mid == (lo + hi) \div 2
         IN  ConcatRange(chunks, lo, mid) \o ConcatRange(chunks, mid + 1, hi)

\* in a string literal whose body starts at i, the character at j is the
\* second character of an escape sequence: an odd number of backslashes
\* stands directly before it
Escaped(s, i, j) ==
    /\ j > i
    /\ s[j - 1] = BSLASH
    /\ LET p == IF \E k \in i..(j - 1) : s[k] # BSLASH
                    THEN CHOOSE k \in i..(j - 1) :
                            s[k] # BSLASH /\ \A m \in (k + 1)..(j - 1) : s[m] = BSLASH
                    ELSE i - 1
       IN  (j - 1 - p) % 2 = 1

\* the body of a string literal from position i (after the opening quote):
\* plain characters up to the closing quote, escapes decoded, control
\* characters refused
ScanString(s, i, acc) ==
    LET Closing(j) == s[j] = QUOTE /\ ~Escaped(s, i, j)
    IN  IF ~\E j \in i..Len(s) : Closing(j) THEN ParseFail(i)
        ELSE LET close == CHOOSE j \in i..Len(s) :
                              Closing(j) /\ \A k \in i..(j - 1) : ~Closing(k)
                 chunks == [k \in i..(close - 1) |->
                              IF Escaped(s, i, k) THEN Unescape(s[k])
                              ELSE IF s[k] = BSLASH THEN <<>>
                              ELSE <<s[k]>>]
             IN  IF \A k \in i..(close - 1) :
                       /\ s[k] \notin {NL, "\t", "\r", "\f"}
                       /\ Escaped(s, i, k) => Unescape(s[k]) # <<>>
                     THEN ParseOk(acc \o ConcatRange(chunks, i, close - 1), close + 1)
                     ELSE ParseFail(i)

RECURSIVE ScanDigits(_, _, _)
ScanDigits(s, i, n) ==
    IF i <= Len(s) /\ s[i] \in Digits
        THEN ScanDigits(s, i + 1, 10 * n + DigitVal(s[i]))
        ELSE [val |-> n, pos |-> i]

\* a number literal: -? (0 | [1-9][0-9]*) (\. [0-9]+)?  An integer part
\* alone is an int, with a fraction part the number is a float
ScanNumber(s, i) ==
    LET neg == s[i] = "-"
        j == IF neg THEN i + 1 ELSE i
        Signed(n) == IF neg THEN 0 - n ELSE n
    IN  IF j > Len(s) \/ s[j] \notin Digits THEN ParseFail(i)
        ELSE LET d == IF s[j] = "0" THEN [val |-> 0, pos |-> j + 1]
                      ELSE ScanDigits(s, j, 0)
                 p == d.pos
             IN  IF p + 1 <= Len(s) /\ s[p] = "." /\ s[p + 1] \in Digits
                     THEN LET f == ScanDigits(s, p + 1, d.val)
                          IN  ParseOk(JFloat(Signed(f.val), f.pos - (p + 1)), f.pos)
                     ELSE ParseOk(JNum(Signed(d.val)), p)

HasAt(s, i, word) ==
    /\ i + Len(word) - 1 <= Len(s)
    /\ \A k \in 1..Len(word) : s[i + k - 1] = word[k]

RECURSIVE ScanValue(_, _)
RECURSIVE ScanElements(_, _, _)
RECURSIVE ScanMembers(_, _, _)

\* one JSON value starting exactly at position i
ScanValue(s, i) ==
    IF i > Len(s) THEN ParseFail(i)
    ELSE IF s[i] = QUOTE THEN
        LET Text(r) == IF r.ok THEN ParseOk(JStr(r.val), r.pos) ELSE ParseFail(i)
        IN  Text(ScanString(s, i + 1, <<>>))
    ELSE IF s[i] = "{" THEN
        LET j == SkipWs(s, i + 1)
        IN  IF j <= Len(s) /\ s[j] = "}" THEN ParseOk(EmptyDict, j + 1)
            ELSE ScanMembers(s, j, <<>>)
    ELSE IF s[i] = "[" THEN
        LET j == SkipWs(s, i + 1)
        IN  IF j <= Len(s) /\ s[j] = "]" THEN ParseOk(JArr(<<>>), j + 1)
            ELSE ScanElements(s, j, <<>>)
    ELSE IF s[i] = "-" \/ s[i] \in Digits THEN ScanNumber(s, i)
    ELSE IF HasAt(s, i, <<"t", "r", "u", "e">>) THEN ParseOk(JBool(TRUE), i + 4)
    ELSE IF HasAt(s, i, <<"f", "a", "l", "s", "e">>) THEN ParseOk(JBool(FALSE), i + 5)
    ELSE IF HasAt(s, i, <<"n", "u", "l", "l">>) THEN ParseOk(JNull, i + 4)
    ELSE ParseFail(i)

\* the elements of an array from position i, up to its closing bracket
ScanElements(s, i, acc) ==
    LET After(r, j) ==
            IF ~r.ok \/ j > Len(s) THEN ParseFail(i)
            ELSE IF s[j] = "," THEN ScanElements(s, SkipWs(s, j + 1), Append(acc, r.val))
            ELSE IF s[j] = "]" THEN ParseOk(JArr(Append(acc, r.val)), j + 1)
            ELSE ParseFail(j)
        Element(r) == After(r, SkipWs(s, r.pos))
    IN  Element(ScanValue(s, i))

\* the members of an object from position i, up to its closing brace
ScanMembers(s, i, acc) ==
    IF i > Len(s) \/ s[i] # QUOTE THEN ParseFail(i)
    ELSE
        LET After(k, r, j) ==
                IF ~r.ok \/ j > Len(s) THEN ParseFail(i)
                ELSE IF s[j] = "," THEN
                    ScanMembers(s, SkipWs(s, j + 1), DictPut(acc, k.val, r.val))
                ELSE IF s[j] = "}" THEN
                    ParseOk(JObj(DictPut(acc, k.val, r.val)), j + 1)
                ELSE ParseFail(j)
            Value(k, r) == After(k, r, SkipWs(s, r.pos))
            Colon(k, c) ==
                IF ~k.ok \/ c > Len(s) \/ s[c] # ":" THEN ParseFail(i)
                ELSE Value(k, ScanValue(s, SkipWs(s, c + 1)))
            Key(k) == Colon(k, SkipWs(s, k.pos))
        IN  Key(ScanString(s, i + 1, <<>>))

\* json.loads(s): ok = FALSE stands for json.JSONDecodeError
JsonLoads(s) ==
    LET Whole(r) == IF r.ok /\ SkipWs(s, r.pos) > Len(s)
                        THEN [ok |-> TRUE, val |-> r.val]
                        ELSE [ok |-> FALSE, val |-> JNull]
    IN  Whole(ScanValue(s, SkipWs(s, 1)))

\* ----------------------------------------------------------- str operations

RECURSIVE LStrip(_)
LStrip(s) == IF s # <<>> /\ Head(s) \in StripChars THEN LStrip(Tail(s)) ELSE s

RECURSIVE RStrip(_)
RStrip(s) ==
    IF s # <<>> /\ s[Len(s)] \in StripChars
        THEN RStrip(SubSeq(s, 1, Len(s) - 1))
        ELSE s

\* str.strip()
Strip(s) == RStrip(LStrip(s))

\* str.rstrip("/")
RECURSIVE RStripSlash(_)
RStripSlash(s) ==
    IF s # <<>> /\ s[Len(s)] = "/"
        THEN RStripSlash(SubSeq(s, 1, Len(s) - 1))
        ELSE s

\* str.split("\n"): the lines of s, at least one
RECURSIVE SplitLines(_)
SplitLines(s) ==
    LET j == FirstIn(s, 1, {NL})
    IN  IF j > Len(s) THEN <<s>>
        ELSE <<SubSeq(s, 1, j - 1)>> \o SplitLines(SubSeq(s, j + 1, Len(s)))

\* str.startswith(prefix)
StartsWith(s, prefix) == HasAt(s, 1, prefix)

\* prefix in s (substring test)
Contains(s, word) == \E i \in 1..Len(s) : HasAt(s, i, word)

\* ------------------------------------------------------------ call outcomes

\* a value handed back by return
Returned(val) == [status |-> "returned", value |-> val]

\* an exception of Python class cls raised at site, carrying payload (the
\* document of a JSONDecodeError, the response of an HTTPError, ...)
Raised(cls, site, payload) ==
    [status |-> "raised", exc |-> cls, site |-> site, payload |-> payload]

\* --------------------------------------------------- ProducerPalClient helpers

DataPrefix == <<"d", "a", "t", "a", ":", SP>>

\* _parse_sse taking the last "data: " line instead of the first
ParseSseLastLine(sse_text) ==
    LET Loaded(doc, r) == IF r.ok THEN Returned(r.val)
                          ELSE Raised("JSONDecodeError", "parse_sse", doc)
        Decode(doc) == Loaded(doc, JsonLoads(doc))
        DataLine(line) == Decode(SubSeq(line, Len(DataPrefix) + 1, Len(line)))
        Scan(lines, hits) ==
            IF hits = {}
                THEN Raised("ValueError", "parse_sse", <<>>)
                ELSE DataLine(lines[CHOOSE i \in hits : \A k \in hits : i >= k])
        Lines(lines) == Scan(lines, {i \in 1..Len(lines) : StartsWith(lines[i], DataPrefix)})
    IN  Lines(SplitLines(Strip(sse_text)))

\* _parse_sse: the first line of the stripped text that starts with "data: ",
\* cut after the prefix and decoded
ParseSse(sse_text) ==
    LET Loaded(doc, r) == IF r.ok THEN Returned(r.val)
                          ELSE Raised("JSONDecodeError", "parse_sse", doc)
        Decode(doc) == Loaded(doc, JsonLoads(doc))
        DataLine(line) == Decode(SubSeq(line, Len(DataPrefix) + 1, Len(line)))
        Scan(lines, hits) ==
            IF hits = {}
                THEN Raised("ValueError", "parse_sse", <<>>)
                ELSE DataLine(lines[CHOOSE i \in hits : \A k \in hits : i <= k])
        Lines(lines) == Scan(lines, {i \in 1..Len(lines) : StartsWith(lines[i], DataPrefix)})
    IN  Lines(SplitLines(Strip(sse_text)))

\* re.sub(r"(\w+):", r'"\1":', js_text): the matches are the maximal runs of
\* word characters that a colon follows directly (a match starts where a run
\* starts, since the character before a match is no word character); each
\* such run is wrapped in double quotes, every other character is copied
QuoteBareKeys(js_text) ==
    LET s == js_text
        IsWord(k) == k >= 1 /\ k <= Len(s) /\ s[k] \in WordChars
        IsColon(k) == k <= Len(s) /\ s[k] = ":"
        \* a maximal run of word characters starts at k and a colon follows it
        Opens(k) == IsWord(k) /\ ~IsWord(k - 1) /\ IsColon(FirstNotIn(s, k, WordChars))
        \* a run of word characters ends at k and a colon follows it
        Closes(k) == IsWord(k) /\ IsColon(k + 1)
        chunks == [k \in 1..Len(s) |->
                     (IF Opens(k) THEN <<QUOTE>> ELSE <<>>) \o <<s[k]>>
                         \o (IF Closes(k) THEN <<QUOTE>> ELSE <<>>)]
    IN  ConcatRange(chunks, 1, Len(s))

\* _parse_js_object on the object content[0].get("text", "{}") yields
ParseJsObject(js_text) ==
    IF js_text.t # "str" THEN Raised("TypeError", "parse_js_object", js_text)
    ELSE LET Loaded(json_text, r) ==
                 IF r.ok THEN Returned(r.val)
                 ELSE Raised("JSONDecodeError", "parse_js_object", json_text)
             Parse(json_text) == Loaded(json_text, JsonLoads(json_text))
         IN  Parse(QuoteBareKeys(js_text.v))

\* ------------------------------------------------- texts the remote side sends

kResult == <<"r", "e", "s", "u", "l", "t">>
kError == <<"e", "r", "r", "o", "r">>
kContent == <<"c", "o", "n", "t", "e", "n", "t">>
kType == <<"t", "y", "p", "e">>
kText == <<"t", "e", "x", "t">>
kId == <<"i", "d">>
kCode == <<"c", "o", "d", "e">>
kMessage == <<"m", "e", "s", "s", "a", "g", "e">>
kPitch == <<"p", "i", "t", "c", "h">>
kStart == <<"s", "t", "a", "r", "t">>
kDuration == <<"d", "u", "r", "a", "t", "i", "o", "n">>
kVelocity == <<"v", "e", "l", "o", "c", "i", "t", "y">>
kProbability == <<"p", "r", "o", "b", "a", "b", "i", "l", "i", "t", "y">>
kName == <<"n", "a", "m", "e">>
kNotes == <<"n", "o", "t", "e", "s">>
kLength == <<"l", "e", "n", "g", "t", "h">>
kClips == <<"c", "l", "i", "p", "s">>
kTrackIndex == <<"t", "r", "a", "c", "k", "I", "n", "d", "e", "x">>
kSessionClipCount == <<"s", "e", "s", "s", "i", "o", "n", "C", "l", "i", "p", "C", "o", "u", "n", "t">>
kArrangementClipCount == <<"a", "r", "r", "a", "n", "g", "e", "m", "e", "n", "t", "C", "l", "i", "p", "C", "o", "u", "n", "t">>
kTempo == <<"t", "e", "m", "p", "o">>
kTracks == <<"t", "r", "a", "c", "k", "s">>

\* ------------------------------------------------------- api_layer/models.py

\* str.split(sep) for a one-character separator: the parts of s, at least one
RECURSIVE Split(_, _)
Split(s, sep) ==
    LET j == FirstIn(s, 1, {sep})
    IN  IF j > Len(s) THEN <<s>>
        ELSE <<SubSeq(s, 1, j - 1)>> \o Split(SubSeq(s, j + 1, Len(s)), sep)

\* int(s) raises no ValueError: surrounding whitespace, one optional sign,
\* then digits, with single underscores allowed between digits
IntParsable(s) ==
    LET t == Strip(s)
        u == IF t # <<>> /\ Head(t) \in {"+", "-"} THEN Tail(t) ELSE t
    IN  /\ u # <<>>
        /\ \A i \in 1..Len(u) : u[i] \in Digits \cup {"_"}
        /\ u[1] \in Digits
        /\ u[Len(u)] \in Digits
        /\ \A i \in 1..(Len(u) - 1) : ~(u[i] = "_" /\ u[i + 1] = "_")

\* validate_start_format looking at the first two parts only
ValidateStartFormatFirstTwo(v) ==
    /\ \E i \in 1..Len(v) : v[i] = "|"
    /\ LET parts == Split(v, "|")
       IN  /\ Len(parts) >= 2
           /\ IntParsable(parts[1])
           /\ IntParsable(parts[2])

\* Note.validate_start_format: TRUE when v is returned, FALSE when it raises
ValidateStartFormat(v) ==
    /\ \E i \in 1..Len(v) : v[i] = "|"
    /\ LET parts == Split(v, "|")
       IN  /\ Len(parts) = 2
           /\ IntParsable(parts[1])
           /\ IntParsable(parts[2])

\* Note.validate_duration_format
ValidateDurationFormat(v) ==
    /\ \E i \in 1..Len(v) : v[i] = ":"
    /\ LET parts == Split(v, ":")
       IN  /\ Len(parts) = 2
           /\ IntParsable(parts[1])
           /\ IntParsable(parts[2])

\* Clip.validate_length_format
ValidateLengthFormat(v) ==
    /\ \E i \in 1..Len(v) : v[i] = ":"
    /\ LET parts == Split(v, ":")
       IN  /\ Len(parts) = 2
           /\ IntParsable(parts[1])
           /\ IntParsable(parts[2])

\* the outcome of model_validate: the entity, or pydantic.ValidationError
Valid(entity) == [ok |-> TRUE, val |-> entity]
Invalid == [ok |-> FALSE, val |-> <<>>]

\* a field the input mapping does not have
Missing == [t |-> "missing"]

\* the digits of an integer written as text, sign and whitespace allowed
IntText(s) ==
    LET t == Strip(s)
        u == IF t # <<>> /\ Head(t) \in {"+", "-"} THEN Tail(t) ELSE t
    IN  IF u # <<>> /\ \A i \in 1..Len(u) : u[i] \in Digits
            THEN [ok |-> TRUE,
                  val |-> IF Head(t) = "-" THEN 0 - ScanDigits(u, 1, 0).val
                          ELSE ScanDigits(u, 1, 0).val]
            ELSE [ok |-> FALSE, val |-> 0]

\* a field annotated int: an int, a float without fraction, a bool or the
\* text of an integer is taken as that int; anything else is refused
AsInt(x) ==
    CASE x.t = "num" -> [ok |-> TRUE, val |-> x.v]
      [] x.t = "float" -> [ok |-> x.v[2] = 0, val |-> x.v[1]]
      [] x.t = "bool" -> [ok |-> TRUE, val |-> IF x.v THEN 1 ELSE 0]
      [] x.t = "str" -> IntText(x.v)
      [] OTHER -> [ok |-> FALSE, val |-> 0]

\* a field annotated float, as the pair <<m, k>> of the float m / 10^k
AsFloat(x) ==
    CASE x.t = "float" -> [ok |-> TRUE, val |-> x.v]
      [] x.t \in {"num", "bool", "str"} ->
            LET Whole(n) == [ok |-> n.ok, val |-> <<n.val, 0>>] IN Whole(AsInt(x))
      [] OTHER -> [ok |-> FALSE, val |-> <<0, 0>>]

\* a field annotated Optional[int], Optional[str]: None when missing or null
AsOptionalInt(x) ==
    IF x.t \in {"missing", "null"} THEN [ok |-> TRUE, val |-> JNull]
    ELSE LET Some(n) == [ok |-> n.ok, val |-> JNum(n.val)] IN Some(AsInt(x))

AsOptionalStr(x) ==
    IF x.t \in {"missing", "null"} THEN [ok |-> TRUE, val |-> JNull]
    ELSE [ok |-> x.t = "str", val |-> x]

\* Note.model_validate(x)
NoteModelValidate(x) ==
    IF x.t # "obj" THEN Invalid
    ELSE LET Fields(pitch, start, duration, velocity, probability) ==
                 IF /\ pitch.t = "str"
                    /\ start.t = "str"
                    /\ ValidateStartFormat(start.v)
                    /\ duration.t = "str"
                    /\ ValidateDurationFormat(duration.v)
                    /\ velocity.ok
                    /\ 0 <= velocity.val
                    /\ velocity.val <= 127
                    /\ probability.ok
                    /\ 0 <= probability.val[1]
                    /\ probability.val[1] <= 10 ^ probability.val[2]
                 THEN Valid([cls |-> "Note", pitch |-> pitch.v, start |-> start.v,
                             duration |-> duration.v, velocity |-> velocity.val,
                             probability |-> probability.val])
                 ELSE Invalid
         IN  Fields(DictGet(x, kPitch, Missing),
                    DictGet(x, kStart, Missing),
                    DictGet(x, kDuration, Missing),
                    AsInt(DictGet(x, kVelocity, JNum(80))),
                    AsFloat(DictGet(x, kProbability, JFloat(1, 0))))

\* a field annotated List[Note]: a list whose elements all validate
AsNoteList(x) ==
    IF x.t # "arr" THEN [ok |-> FALSE, val |-> <<>>]
    ELSE LET All(items) == [ok |-> \A i \in 1..Len(items) : items[i].ok,
                            val |-> [i \in 1..Len(items) |-> items[i].val]]
         IN  All([i \in 1..Len(x.v) |-> NoteModelValidate(x.v[i])])

\* note.model_dump()
NoteModelDump(note) ==
    JObj([k \in {kPitch, kStart, kDuration, kVelocity, kProbability} |->
            CASE k = kPitch -> JStr(note.pitch)
              [] k = kStart -> JStr(note.start)
              [] k = kDuration -> JStr(note.duration)
              [] k = kVelocity -> JNum(note.velocity)
              [] k = kProbability -> JFloat(note.probability[1], note.probability[2])])

\* Clip.model_validate(x)
ClipModelValidate(x) ==
    IF x.t # "obj" THEN Invalid
    ELSE LET Fields(id, name, notes, length) ==
                 IF /\ id.ok
                    /\ name.t = "str"
                    /\ notes.ok
                    /\ length.t = "str"
                    /\ ValidateLengthFormat(length.v)
                 THEN Valid([cls |-> "Clip", id |-> id.val, name |-> name.v,
                             notes |-> notes.val, length |-> length.v])
                 ELSE Invalid
         IN  Fields(AsInt(DictGet(x, kId, Missing)),
                    DictGet(x, kName, Missing),
                    AsNoteList(DictGet(x, kNotes, Missing)),
                    DictGet(x, kLength, Missing))

\* a field annotated List[Clip]: a list whose elements all validate
AsClipList(x) ==
    IF x.t # "arr" THEN [ok |-> FALSE, val |-> <<>>]
    ELSE LET All(items) == [ok |-> \A i \in 1..Len(items) : items[i].ok,
                            val |-> [i \in 1..Len(items) |-> items[i].val]]
         IN  All([i \in 1..Len(x.v) |-> ClipModelValidate(x.v[i])])

\* Track.model_validate(x)
TrackModelValidate(x) ==
    IF x.t # "obj" THEN Invalid
    ELSE LET Fields(id, name, clips, type, trackIndex, sessionClipCount,
                    arrangementClipCount) ==
                 IF /\ id.ok
                    /\ name.t = "str"
                    /\ clips.ok
                    /\ type.ok
                    /\ trackIndex.ok
                    /\ sessionClipCount.ok
                    /\ arrangementClipCount.ok
                 THEN Valid([cls |-> "Track", id |-> id.val, name |-> name.v,
                             clips |-> clips.val, type |-> type.val,
                             trackIndex |-> trackIndex.val,
                             sessionClipCount |-> sessionClipCount.val,
                             arrangementClipCount |-> arrangementClipCount.val])
                 ELSE Invalid
         IN  Fields(AsInt(DictGet(x, kId, Missing)),
                    DictGet(x, kName, Missing),
                    AsClipList(DictGet(x, kClips, JArr(<<>>))),
                    AsOptionalStr(DictGet(x, kType, Missing)),
                    AsOptionalInt(DictGet(x, kTrackIndex, Missing)),
                    AsOptionalInt(DictGet(x, kSessionClipCount, Missing)),
                    AsOptionalInt(DictGet(x, kArrangementClipCount, Missing)))

\* a field annotated List[Track]: a list whose elements all validate
AsTrackList(x) ==
    IF x.t # "arr" THEN [ok |-> FALSE, val |-> <<>>]
    ELSE LET All(items) == [ok |-> \A i \in 1..Len(items) : items[i].ok,
                            val |-> [i \in 1..Len(items) |-> items[i].val]]
         IN  All([i \in 1..Len(x.v) |-> TrackModelValidate(x.v[i])])

\* ProjectInfo.model_validate(x)
ProjectInfoModelValidate(x) ==
    IF x.t # "obj" THEN Invalid
    ELSE LET Fields(tempo, tracks) ==
                 IF tempo.ok /\ tempo.val[1] > 0 /\ tracks.ok
                 THEN Valid([cls |-> "ProjectInfo", tempo |-> tempo.val,
                             tracks |-> tracks.val])
                 ELSE Invalid
         IN  Fields(AsFloat(DictGet(x, kTempo, Missing)),
                    AsTrackList(DictGet(x, kTracks, Missing)))


\* a text as a JSON string literal, quotes and backslashes escaped
EscapeText(s) ==
    LET chunks == [k \in 1..Len(s) |->
                     IF s[k] \in {QUOTE, BSLASH} THEN <<BSLASH, s[k]>>
                     ELSE IF s[k] = NL THEN <<BSLASH, "n">>
                     ELSE <<s[k]>>]
    IN  ConcatRange(chunks, 1, Len(s))

Lit(s) == <<QUOTE>> \o EscapeText(s) \o <<QUOTE>>
Member(k, val) == Lit(k) \o <<":">> \o val
Obj1(m) == <<"{">> \o m \o <<"}">>
Obj2(m, n) == <<"{">> \o m \o <<",">> \o n \o <<"}">>
Arr1(x) == <<"[">> \o x \o <<"]">>
Arr2(x, y) == <<"[">> \o x \o <<",">> \o y \o <<"]">>

\* inner texts of a content block (the service's JavaScript object notation)
txtBare == <<"{", "t", "e", "m", "p", "o", ":", "1", "2", "0", ",", "t", "r", "a", "c", "k", "s", ":", "[", "]", "}">>
txtJson == <<"{", QUOTE, "t", "e", "m", "p", "o", QUOTE, ":", "1", "2", "0", ",", QUOTE, "t", "r", "a", "c", "k", "s", QUOTE, ":", "[", "]", "}">>
txtIdBare == <<"{", "i", "d", ":", QUOTE, "1", QUOTE, "}">>
txtIdJson == <<"{", QUOTE, "i", "d", QUOTE, ":", QUOTE, "1", QUOTE, "}">>
txtClipBare == <<"{", "i", "d", ":", "1", ",", "l", "e", "n", "g", "t", "h", ":", QUOTE, "4", ":", "0", QUOTE, "}">>
txtClipJson == <<"{", QUOTE, "i", "d", QUOTE, ":", "1", ",", QUOTE, "l", "e", "n", "g", "t", "h", QUOTE, ":", QUOTE, "4", ":", "0", QUOTE, "}">>
txtMixed == <<"{", "i", "d", ":", "1", ",", QUOTE, "n", "a", "m", "e", QUOTE, ":", QUOTE, "x", QUOTE, "}">>
txtNoteJson == <<"{", QUOTE, "s", "t", "a", "r", "t", QUOTE, ":", QUOTE, "1", "|", "1", QUOTE, ",", QUOTE, "d", "u", "r", "a", "t", "i", "o", "n", QUOTE, ":", QUOTE, "1", ":", "0", QUOTE, "}">>
txtList == <<"[", "1", "]">>
txtNumber == <<"5">>
txtBroken == <<"{", "i", "d", ":">>

JsonTexts == {txtJson, txtIdJson, txtClipJson, txtNoteJson}
BareTexts == {txtBare, txtIdBare, txtClipBare, txtMixed}
InnerTexts == JsonTexts \cup BareTexts \cup {txtList, txtNumber, txtBroken, <<>>}

\* content blocks and content members
blkText(txt) == Obj2(Member(kType, Lit(kText)), Member(kText, Lit(txt)))
blkImage == Obj1(Member(kType, Lit(<<"i", "m", "a", "g", "e">>)))
blkNoText == Obj1(Member(kType, Lit(kText)))
blkNumText == Obj2(Member(kType, Lit(kText)), Member(kText, <<"5">>))
blkNoType == Obj1(Member(kText, Lit(txtBare)))

litNull == <<"n", "u", "l", "l">>
litTrue == <<"t", "r", "u", "e">>
litFalse == <<"f", "a", "l", "s", "e">>

TextContents == {Arr1(blkText(txt)) : txt \in InnerTexts}

Contents ==
    TextContents \cup
    {<<"[", "]">>, Arr2(blkText(txtBare), blkText(txtList)),
     Arr2(blkImage, blkText(txtBare)), Arr1(blkImage), Arr1(blkNoText),
     Arr1(blkNumText), Arr1(blkNoType), Arr1(<<"5">>), <<"5">>, <<"0">>,
     Lit(<<"x">>), Obj1(Member(<<"a">>, <<"1">>)), litTrue, litNull}

\* result members
resContent(c) == Obj1(Member(kContent, c))

MapResults ==
    {txtJson, txtClipJson, <<"{", "}">>,
     Obj2(Member(kContent, Arr1(blkImage)), Member(kId, <<"1">>))}

Results ==
    {resContent(c) : c \in Contents} \cup MapResults \cup
    {<<"[", "]">>, Arr1(<<"1">>), litNull, Lit(<<"x">>), <<"5">>}

\* error members
errObject ==
    Obj2(Member(kCode, <<"-", "3", "2", "6", "0", "0">>), Member(kMessage, Lit(<<"I", "n", "v", "a", "l", "i", "d", SP, "p", "a", "r", "a", "m", "s">>)))

Errors ==
    {errObject, litNull, <<"{", "}">>, <<"0">>, <<"7">>, litFalse,
     Lit(<<>>), Lit(<<"x">>), <<"[", "]">>}

\* response envelopes, and texts that are no envelope
envResult(r) == Obj2(Member(kResult, r), Member(kId, <<"1">>))
envError(e) == Obj2(Member(kError, e), Member(kId, <<"1">>))
envBoth(e, r) == Obj2(Member(kError, e), Member(kResult, r))

Envelopes ==
    {envResult(r) : r \in Results} \cup
    {envError(e) : e \in Errors} \cup
    {envBoth(e, r) : e \in Errors, r \in {txtJson, resContent(Arr1(blkText(txtBare)))}} \cup
    {Obj1(Member(kId, <<"1">>)), txtJson, <<"{", "}">>} \cup
    {<<"[", "]">>, Arr1(<<"1">>), <<"5">>, litNull, litTrue, Lit(<<"x">>)} \cup
    {<<"{">> \o Member(kResult, <<>>), <<>>}

\* event-stream framings of an envelope
eventLine == <<"e", "v", "e", "n", "t", ":", SP, "m", "e", "s", "s", "a", "g", "e">>
sseEvent(e) == eventLine \o <<NL>> \o DataPrefix \o e \o <<NL, NL>>
sseData(e) == DataPrefix \o e \o <<NL, NL>>
sseLeadingSpace(e) == <<SP>> \o DataPrefix \o e \o <<NL, NL>>
sseLeadingLine(e) == <<NL>> \o DataPrefix \o e
sseIndented(e) == eventLine \o <<NL, SP>> \o DataPrefix \o e \o <<NL>>
sseNoSpace(e) == <<"d", "a", "t", "a", ":">> \o e \o <<NL, NL>>
sseTwo(e, f) == DataPrefix \o e \o <<NL>> \o DataPrefix \o f \o <<NL, NL>>

FramedEnvelopes ==
    {envResult(txtJson), envError(errObject), envResult(resContent(Arr1(blkText(txtBare))))}

Bodies ==
    Envelopes \cup
    {sseEvent(e) : e \in Envelopes} \cup
    {sseData(e) : e \in FramedEnvelopes} \cup
    {sseLeadingSpace(e) : e \in FramedEnvelopes} \cup
    {sseLeadingLine(e) : e \in FramedEnvelopes} \cup
    {sseIndented(e) : e \in FramedEnvelopes} \cup
    {sseNoSpace(e) : e \in FramedEnvelopes} \cup
    {sseTwo(e, f) : e \in FramedEnvelopes, f \in FramedEnvelopes} \cup
    {eventLine \o <<NL, NL>>, DataPrefix \o <<NL>>, DataPrefix \o txtBroken}

ctJson == <<"a", "p", "p", "l", "i", "c", "a", "t", "i", "o", "n", "/", "j", "s", "o", "n">>
ctEventStream == <<"t", "e", "x", "t", "/", "e", "v", "e", "n", "t", "-", "s", "t", "r", "e", "a", "m">>
ctEventStreamCharset == ctEventStream \o <<";", SP, "c", "h", "a", "r", "s", "e", "t", "=", "u", "t", "f", "-", "8">>

\* header lists of a response: Content-Type absent, or one of three values
HeaderSets ==
    {<<>>} \cup
    {<<<<"Content-Type", ct>>>> : ct \in {ctJson, ctEventStream, ctEventStreamCharset}}

\* response.headers.get(name, default)
HeadersGet(headers, name, default) ==
    IF \E i \in 1..Len(headers) : headers[i][1] = name
        THEN headers[CHOOSE i \in 1..Len(headers) : headers[i][1] = name][2]
        ELSE default

StatusCodes == {200, 300, 404, 500}

Responses ==
    [status_code : StatusCodes, headers : HeaderSets, text : Bodies]

\* base URLs a client is constructed with
urlPlain == <<"h", "t", "t", "p", ":", "/", "/", "h">>
urlPath == urlPlain \o <<"/", "v", "1">>
BaseUrlArgs ==
    {urlPlain, urlPlain \o <<"/">>, urlPlain \o <<"/", "/">>, urlPath, urlPath \o <<"/">>}

\* ----------------------------- public calls and what the remote side answers

toolReadLiveSet == <<"p", "p", "a", "l", "-", "r", "e", "a", "d", "-", "l", "i", "v", "e", "-", "s", "e", "t">>
toolReadTrack == <<"p", "p", "a", "l", "-", "r", "e", "a", "d", "-", "t", "r", "a", "c", "k">>
toolCreateClip == <<"p", "p", "a", "l", "-", "c", "r", "e", "a", "t", "e", "-", "c", "l", "i", "p">>
toolReadClip == <<"p", "p", "a", "l", "-", "r", "e", "a", "d", "-", "c", "l", "i", "p">>
kTrackId == <<"t", "r", "a", "c", "k", "I", "d">>
kClipId == <<"c", "l", "i", "p", "I", "d">>
kJsonrpc == <<"j", "s", "o", "n", "r", "p", "c">>
kMethod == <<"m", "e", "t", "h", "o", "d">>
kParams == <<"p", "a", "r", "a", "m", "s">>
kArguments == <<"a", "r", "g", "u", "m", "e", "n", "t", "s">>
txtVersion == <<"2", ".", "0">>
txtToolsCall == <<"t", "o", "o", "l", "s", "/", "c", "a", "l", "l">>
ctAccept == <<"a", "p", "p", "l", "i", "c", "a", "t", "i", "o", "n", "/", "j", "s", "o", "n", ",", SP, "t", "e", "x", "t", "/", "e", "v", "e", "n", "t", "-", "s", "t", "r", "e", "a", "m">>
pathMcp == <<"/", "m", "c", "p">>
pitchC3 == <<"C", "3">>
pitchE3 == <<"E", "3">>
start11 == <<"1", "|", "1">>
start21 == <<"2", "|", "1">>
dur10 == <<"1", ":", "0">>
dur02 == <<"0", ":", "2">>
len40 == <<"4", ":", "0">>
nameClip == <<"N", "e", "w", SP, "C", "l", "i", "p">>
nameTrack == <<"T", "e", "s", "t", SP, "T", "r", "a", "c", "k">>
typeMidi == <<"m", "i", "d", "i">>
StartTexts ==
    {<<"1", "|", "1">>,
     <<"1", "-", "1">>,
     <<"1">>,
     <<"1", "|", "1", "|", "1">>,
     <<"o", "n", "e", "|", "1">>,
     <<"|", "1">>,
     <<"1", "|">>,
     <<SP, "1", SP, "|", SP, "2", SP>>,
     <<"1", ":", "1">>,
     <<"-", "1", "|", "+", "2">>,
     <<"1", ".", "5", "|", "1">>,
     <<>>}
DurationTexts ==
    {<<"1", ":", "0">>,
     <<"f", "o", "u", "r", ":", "z", "e", "r", "o">>,
     <<"1", "|", "0">>,
     <<"1">>,
     <<"1", ":", "0", ":", "0">>,
     <<":", "0">>,
     <<"1", ":">>,
     <<"1", SP, ":", SP, "0">>,
     <<"1", "_", "0", ":", "0">>,
     <<"1", "_", "_", "0", ":", "0">>,
     <<"_", "1", ":", "0">>,
     <<"4", ":", "0", "x">>}
LengthTexts ==
    {<<"4", ":", "0">>,
     <<"4", "-", "0">>,
     <<"4">>,
     <<"1", ":", "2", ":", "3">>,
     <<"f", "o", "u", "r", ":", "z", "e", "r", "o">>,
     <<":">>,
     <<"4", ":">>,
     <<SP, "4", ":", "0", SP>>,
     <<"0", ":", "-", "0">>,
     <<"4", ":", "0", ".", "5">>,
     <<"4", ":", "+">>,
     <<"4", ":", ":", "0">>,
     <<>>}

\* the dict built from a sequence of <<key, value>> pairs, as a dict display
MakeDict(pairs) ==
    JObj([k \in {pairs[i][1] : i \in 1..Len(pairs)} |->
            pairs[CHOOSE i \in 1..Len(pairs) :
                    pairs[i][1] = k /\ \A j \in (i + 1)..Len(pairs) : pairs[j][1] # k][2]])

\* Note(pitch="C3", start="1|1", duration="1:0"): velocity and probability
\* take their defaults
noteDefaults ==
    NoteModelValidate(MakeDict(<<<<kPitch, JStr(pitchC3)>>, <<kStart, JStr(start11)>>,
                                 <<kDuration, JStr(dur10)>>>>)).val

\* Note(pitch="E3", start="2|1", duration="0:2", velocity=90, probability=0.5)
noteFull ==
    NoteModelValidate(MakeDict(<<<<kPitch, JStr(pitchE3)>>, <<kStart, JStr(start21)>>,
                                 <<kDuration, JStr(dur02)>>, <<kVelocity, JNum(90)>>,
                                 <<kProbability, JFloat(5, 1)>>>>)).val

NoteLists == {<<>>, <<noteDefaults>>, <<noteDefaults, noteFull>>, <<noteFull, noteDefaults>>}

\* the largest track and clip identifiers a caller passes
MaxTrackId == 2
MaxClipId == 1

TrackIds == 1..MaxTrackId
ClipIds == 1..MaxClipId

\* the calls of the four public operations
Calls ==
    {[op |-> "get_project_info", track_id |-> 0, clip_id |-> 0, notes |-> <<>>]} \cup
    {[op |-> "get_track", track_id |-> t, clip_id |-> 0, notes |-> <<>>] : t \in TrackIds} \cup
    {[op |-> "create_midi_clip", track_id |-> t, clip_id |-> 0, notes |-> n] :
        t \in TrackIds, n \in NoteLists} \cup
    {[op |-> "get_clip", track_id |-> t, clip_id |-> c, notes |-> <<>>] :
        t \in TrackIds, c \in ClipIds}

RECURSIVE Join(_, _)
Join(items, sep) ==
    IF items = <<>> THEN <<>>
    ELSE IF Len(items) = 1 THEN items[1]
    ELSE items[1] \o sep \o Join(Tail(items), sep)

ObjOf(members) == <<"{">> \o Join(members, <<",">>) \o <<"}">>
ArrOf(items) == <<"[">> \o Join(items, <<",">>) \o <<"]">>

\* a member whose key is written bare (JavaScript notation) or quoted (JSON)
MemberAs(bare, k, val) == (IF bare THEN k ELSE Lit(k)) \o <<":">> \o val

DigitChar(d) == CHOOSE c \in Digits : DigitVal(c) = d

\* the decimal text of a natural number
RECURSIVE IntLit(_)
IntLit(n) == IF n < 10 THEN <<DigitChar(n)>> ELSE IntLit(n \div 10) \o <<DigitChar(n % 10)>>

\* the text of the float m / 10^k, 0 <= m, with at least one fraction digit
FloatLit(f) ==
    LET m == f[1]
        k == f[2]
        frac == IntLit(m % (10 ^ k))
        zeros == [i \in 1..(k - Len(frac)) |-> "0"]
    IN  IF k = 0 THEN IntLit(m) \o <<".", "0">>
        ELSE IntLit(m \div (10 ^ k)) \o <<".">> \o zeros \o frac

\* a note as the remote side writes it: the dump of the note
NoteText(bare, note) ==
    ObjOf(<<MemberAs(bare, kPitch, Lit(note.pitch)),
            MemberAs(bare, kStart, Lit(note.start)),
            MemberAs(bare, kDuration, Lit(note.duration)),
            MemberAs(bare, kVelocity, IntLit(note.velocity)),
            MemberAs(bare, kProbability, FloatLit(note.probability))>>)

NoteTexts(bare, notes) == [i \in 1..Len(notes) |-> NoteText(bare, notes[i])]

ClipText(bare, id, name, notes, length) ==
    ObjOf(<<MemberAs(bare, kId, IntLit(id)),
            MemberAs(bare, kName, Lit(name)),
            MemberAs(bare, kNotes, ArrOf(NoteTexts(bare, notes))),
            MemberAs(bare, kLength, Lit(length))>>)

\* the clip a create-clip call is answered with: the notes sent, echoed
EchoClip(bare, notes) == ClipText(bare, 1, nameClip, notes, len40)

Answer(status, ct, text) ==
    [status_code |-> status, headers |-> <<<<"Content-Type", ct>>>>, text |-> text]

\* a result in a plain JSON body and in an event-stream body
Plain(res) == Answer(200, ctJson, envResult(res))
Streamed(res) == Answer(200, ctEventStream, sseEvent(envResult(res)))

\* a text as the one text block of a result
InText(txt) == resContent(Arr1(blkText(txt)))

\* answers that make a call fail: an error status, a remote error, a body
\* that is no JSON, a stream without data line, a text that is no notation
FailureAnswers ==
    {Answer(404, ctJson, envError(errObject)),
     Answer(500, ctEventStream, sseEvent(envResult(txtJson))),
     Answer(200, ctJson, envError(errObject)),
     Answer(200, ctJson, <<"{">> \o Member(kResult, <<>>)),
     Answer(200, ctEventStream, eventLine \o <<NL, NL>>),
     Answer(200, ctEventStream, DataPrefix \o QuoteBareKeys(txtBroken)),
     Plain(InText(txtBroken))}

\* a note with the given start and duration
NoteWith(start, duration) ==
    [pitch |-> pitchC3, start |-> start, duration |-> duration,
     velocity |-> 80, probability |-> <<1, 0>>]

\* answers to create_midi_clip(track_id, notes)
EchoAnswers(notes) ==
    {Plain(EchoClip(FALSE, notes)), Streamed(EchoClip(FALSE, notes)),
     Plain(InText(EchoClip(TRUE, notes))), Streamed(InText(EchoClip(TRUE, notes))),
     Plain(InText(EchoClip(FALSE, notes))),
     Answer(200, ctJson, EchoClip(FALSE, notes))}

\* answers to get_clip(track_id, clip_id)
ClipAnswers ==
    {Plain(ClipText(FALSE, 1, nameClip, <<>>, l)) : l \in LengthTexts} \cup
    {Plain(ClipText(FALSE, 1, nameClip, <<NoteWith(s, dur10)>>, len40)) : s \in StartTexts} \cup
    {Plain(ClipText(FALSE, 1, nameClip, <<NoteWith(start11, d)>>, len40)) : d \in DurationTexts} \cup
    {Streamed(ClipText(FALSE, 1, nameClip, <<noteDefaults, noteFull>>, len40)),
     Plain(InText(ClipText(TRUE, 1, nameClip, <<>>, len40))),
     Plain(InText(ClipText(TRUE, 1, nameClip, <<>>, <<"4", SP, ":", "0">>))),
     Plain(ObjOf(<<Member(kId, <<"1">>), Member(kName, Lit(nameClip))>>)),
     Plain(ObjOf(<<Member(kId, <<"1">>), Member(kName, Lit(nameClip)),
                   Member(kNotes, litNull), Member(kLength, Lit(len40))>>)),
     Plain(ObjOf(<<Member(kId, <<"1">>), Member(kName, Lit(nameClip)),
                   Member(kNotes, <<"[", "]">>), Member(kLength, <<"4">>)>>)),
     Plain(<<"[", "]">>), Plain(<<"{", "}">>)}

trackPlain == ObjOf(<<Member(kId, <<"1">>), Member(kName, Lit(nameTrack))>>)

trackWithClip ==
    ObjOf(<<Member(kId, <<"1">>), Member(kName, Lit(nameTrack)),
            Member(kClips, Arr1(ClipText(FALSE, 1, nameClip, <<noteDefaults>>, len40)))>>)

trackBare ==
    ObjOf(<<MemberAs(TRUE, kId, <<"1">>), MemberAs(TRUE, kName, Lit(nameTrack)),
            MemberAs(TRUE, kType, Lit(typeMidi)), MemberAs(TRUE, kTrackIndex, <<"0">>)>>)

\* answers to get_track(track_id)
TrackAnswers ==
    {Plain(trackPlain), Streamed(trackPlain), Plain(trackWithClip),
     Plain(InText(trackBare)), Streamed(InText(trackBare)),
     Answer(200, ctJson, trackWithClip),
     Plain(ObjOf(<<Member(kId, <<"1">>)>>)),
     Plain(ObjOf(<<Member(kId, litNull), Member(kName, Lit(nameTrack))>>)),
     Plain(ObjOf(<<Member(kId, <<"1">>), Member(kName, Lit(nameTrack)),
                   Member(kClips, Arr1(trackPlain))>>)),
     Plain(ObjOf(<<Member(kId, <<"1">>), Member(kName, Lit(nameTrack)),
                   Member(kTrackIndex, Lit(typeMidi))>>)),
     Plain(<<"5">>)}

\* the responses a call may be answered with
Answers(c) ==
    CASE c.op = "get_project_info" -> Responses
      [] c.op = "get_track" -> TrackAnswers \cup FailureAnswers
      [] c.op = "create_midi_clip" -> EchoAnswers(c.notes) \cup FailureAnswers
      [] c.op = "get_clip" -> ClipAnswers \cup FailureAnswers

\* ----------------------------------------------------------------- the client

\* timeout=30 of requests.post
Timeout == 30

\* the longest time one phase of an HTTP exchange takes
MaxDelay == 31

Delays == {Timeout, MaxDelay}

\* classes of requests.exceptions and builtins: the classes an exception of
\* class cls is an instance of
Mro(cls) ==
    CASE cls = "RequestsConnectionError" -> {"RequestsConnectionError", "RequestException"}
      [] cls = "ConnectTimeout" ->
           {"ConnectTimeout", "RequestsConnectionError", "Timeout", "RequestException"}
      [] cls = "ReadTimeout" -> {"ReadTimeout", "Timeout", "RequestException"}
      [] cls = "HTTPError" -> {"HTTPError", "RequestException"}
      [] cls = "RequestsJSONDecodeError" ->
           {"RequestsJSONDecodeError", "RequestException", "JSONDecodeError", "ValueError"}
      [] cls = "JSONDecodeError" -> {"JSONDecodeError", "ValueError"}
      [] OTHER -> {cls}

IsInstance(e, cls) == cls \in Mro(e.exc)

VARIABLES
    base_url_arg,       \* the base_url the client was constructed with
    base_url,           \* self.base_url
    call,               \* the public operation called and its arguments
    sent,               \* the requests handed to requests.post by this call
    op_outcome,         \* how the public operation ended
    suspended,          \* the frame of a second call in progress, not running
    pc,                 \* position of the call inside _call_tool
    exchange,           \* what the HTTP exchange of requests.post did
    response,           \* the requests.Response, once received
    json_rpc_response,  \* the decoded envelope
    result,             \* the result taken from the envelope
    js_text,            \* the text handed to _parse_js_object
    outcome,            \* how _call_tool ended
    trace               \* the steps of _call_tool that ran, in order

vars ==
    <<base_url_arg, base_url, call, sent, op_outcome, suspended, pc, exchange, response,
      json_rpc_response, result, js_text, outcome, trace>>

Unset == [t |-> "unset"]
NoExchange == [phase |-> "none", elapsed |-> 0, raised |-> "none"]
NoResponse == [status_code |-> 0, headers |-> <<>>, text |-> <<>>]
Running == [status |-> "running"]
NoCall == [op |-> "none", track_id |-> 0, clip_id |-> 0, notes |-> <<>>]

\* the local state of one call: its arguments, its position and its locals
Frame(c, s, o, p, x, r, j, res, txt, out, tr) ==
    [call |-> c, sent |-> s, op_outcome |-> o, pc |-> p, exchange |-> x,
     response |-> r, json_rpc_response |-> j, result |-> res, js_text |-> txt,
     outcome |-> out, trace |-> tr]

\* the frame of call c before its first step
NewFrame(c) ==
    Frame(c, <<>>, Running, "ready", NoExchange, NoResponse, Unset, Unset, Unset,
          Running, <<>>)

\* no second call
NoFrame ==
    Frame(NoCall, <<>>, Running, "none", NoExchange, NoResponse, Unset, Unset, Unset,
          Running, <<>>)

\* headers={"Content-Type": "application/json",
\*          "Accept": "application/json, text/event-stream"}
RequestHeaders == <<<<"Content-Type", ctJson>>, <<"Accept", ctAccept>>>>

\* the tool a public operation calls
ToolName(c) ==
    CASE c.op = "get_project_info" -> toolReadLiveSet
      [] c.op = "get_track" -> toolReadTrack
      [] c.op = "create_midi_clip" -> toolCreateClip
      [] c.op = "get_clip" -> toolReadClip

\* the arguments a public operation passes to _call_tool
Arguments(c) ==
    CASE c.op = "get_project_info" -> EmptyDict
      [] c.op = "get_track" -> MakeDict(<<<<kTrackId, JNum(c.track_id)>>>>)
      [] c.op = "create_midi_clip" ->
           MakeDict(<<<<kTrackId, JNum(c.track_id)>>,
                      <<kNotes, JArr([i \in 1..Len(c.notes) |-> NoteModelDump(c.notes[i])])>>>>)
      [] c.op = "get_clip" ->
           MakeDict(<<<<kTrackId, JNum(c.track_id)>>, <<kClipId, JNum(c.clip_id)>>>>)

\* payload = {"jsonrpc": "2.0", "method": "tools/call",
\*            "params": {"name": tool_name, "arguments": arguments}, "id": 1}
Payload(tool_name, arguments) ==
    MakeDict(<<<<kJsonrpc, JStr(txtVersion)>>,
               <<kMethod, JStr(txtToolsCall)>>,
               <<kParams, MakeDict(<<<<kName, JStr(tool_name)>>, <<kArguments, arguments>>>>)>>,
               <<kId, JNum(1)>>>>)

\* the request posted to the base URL as the client was constructed with it
RequestToUnstrippedBase(c) ==
    [method |-> "POST", url |-> base_url_arg \o pathMcp,
     json |-> Payload(ToolName(c), Arguments(c)),
     headers |-> RequestHeaders, timeout |-> Timeout]

\* the request of requests.post(url, json=payload, headers=..., timeout=30)
Request(c) ==
    [method |-> "POST", url |-> base_url \o pathMcp,
     json |-> Payload(ToolName(c), Arguments(c)),
     headers |-> RequestHeaders, timeout |-> Timeout]

\* an except clause that also catches requests.exceptions.Timeout
ExceptAlsoTimeout(e) ==
    IF IsInstance(e, "RequestsConnectionError") \/ IsInstance(e, "Timeout")
        THEN Raised("ConnectionError", "except", [base_url |-> base_url, cause |-> e])
        ELSE e

\* an except clause that catches every requests.exceptions.RequestException
ExceptAnyRequestException(e) ==
    IF IsInstance(e, "RequestException")
        THEN Raised("ConnectionError", "except", [base_url |-> base_url, cause |-> e])
        ELSE e

\* except RequestsConnectionError as e: raise ConnectionError(...) from e;
\* any other exception leaves _call_tool as it is
Except(e) ==
    IF IsInstance(e, "RequestsConnectionError")
        THEN Raised("ConnectionError", "except", [base_url |-> base_url, cause |-> e])
        ELSE e

\* the call ends with the exception e and _call_tool starts over
RaiseAndRetry(e) ==
    /\ pc' = "ready"
    /\ outcome' = Running

\* the call ends with the exception e raised inside the try block
Raise(e) ==
    /\ pc' = "done"
    /\ outcome' = Except(e)

\* the call ends with return val
Return(val) ==
    /\ pc' = "done"
    /\ outcome' = Returned(val)

\* __init__: base_url.rstrip("/")
Init ==
    /\ base_url_arg \in BaseUrlArgs
    /\ base_url = RStripSlash(base_url_arg)
    /\ call \in Calls
    /\ sent = <<>>
    /\ op_outcome = Running
    /\ suspended = NoFrame
    /\ pc = "ready"
    /\ exchange = NoExchange
    /\ response = NoResponse
    /\ json_rpc_response = Unset
    /\ result = Unset
    /\ js_text = Unset
    /\ outcome = Running
    /\ trace = <<>>

\* requests.post(url, json=payload, headers=..., timeout=30): the connection
\* is refused (ConnectionError), connecting takes longer than the timeout
\* (ConnectTimeout), no response starts within the timeout (ReadTimeout), the
\* body stalls longer than the timeout (ConnectionError), or a response comes
Post ==
    /\ pc = "ready"
    /\ trace' = Append(trace, "post")
    /\ sent' = Append(sent, Request(call))
    /\ UNCHANGED <<base_url_arg, base_url, call, op_outcome, suspended>>
    /\ UNCHANGED <<json_rpc_response, result, js_text>>
    /\ \/ /\ exchange' = [phase |-> "connect", elapsed |-> 0, raised |-> "RequestsConnectionError"]
          /\ Raise(Raised("RequestsConnectionError", "post", <<>>))
          /\ UNCHANGED response
       \/ \E c \in Delays :
            /\ c > Timeout
            /\ exchange' = [phase |-> "connect", elapsed |-> c, raised |-> "ConnectTimeout"]
            /\ Raise(Raised("ConnectTimeout", "post", <<>>))
            /\ UNCHANGED response
       \/ \E c \in Delays, w \in Delays :
            /\ c <= Timeout
            /\ w > Timeout
            /\ exchange' = [phase |-> "wait", elapsed |-> w, raised |-> "ReadTimeout"]
            /\ Raise(Raised("ReadTimeout", "post", <<>>))
            /\ UNCHANGED response
       \/ \E c \in Delays, w \in Delays, b \in Delays :
            /\ c <= Timeout
            /\ w <= Timeout
            /\ b > Timeout
            /\ exchange' = [phase |-> "body", elapsed |-> b, raised |-> "RequestsConnectionError"]
            /\ Raise(Raised("RequestsConnectionError", "post", <<>>))
            /\ UNCHANGED response
       \/ \E c \in Delays, w \in Delays, b \in Delays, r \in Answers(call) :
            /\ c <= Timeout
            /\ w <= Timeout
            /\ b <= Timeout
            /\ exchange' = [phase |-> "received", elapsed |-> b, raised |-> "none"]
            /\ response' = r
            /\ pc' = "posted"
            /\ UNCHANGED outcome

\* response.raise_for_status(): HTTPError for a 4xx or 5xx status
RaiseForStatus ==
    /\ pc = "posted"
    /\ trace' = Append(trace, "raise_for_status")
    /\ UNCHANGED <<base_url_arg, base_url, call, sent, op_outcome, suspended>>
    /\ UNCHANGED <<exchange, response, json_rpc_response, result, js_text>>
    /\ IF 400 <= response.status_code /\ response.status_code < 600
           THEN Raise(Raised("HTTPError", "raise_for_status", response))
           ELSE pc' = "layer1" /\ UNCHANGED outcome

\* "text/event-stream" in response.headers.get("Content-Type", "")
IsEventStream(r) == Contains(HeadersGet(r.headers, "Content-Type", <<>>), ctEventStream)

\* response.json()
ResponseJson(r) ==
    LET Loaded(d) == IF d.ok THEN Returned(d.val)
                     ELSE Raised("RequestsJSONDecodeError", "response_json", r.text)
    IN  Loaded(JsonLoads(r.text))

\* Layer 1: self._parse_sse(response.text) or response.json()
DecodeEnvelope(r) == IF IsEventStream(r) THEN ParseSse(r.text) ELSE ResponseJson(r)

Layer1 ==
    /\ pc = "layer1"
    /\ trace' = Append(trace, IF IsEventStream(response) THEN "parse_sse" ELSE "response_json")
    /\ UNCHANGED <<base_url_arg, base_url, call, sent, op_outcome, suspended>>
    /\ UNCHANGED <<exchange, response, result, js_text>>
    /\ LET Decoded(d) ==
               IF d.status = "raised"
                   THEN Raise(d) /\ UNCHANGED json_rpc_response
                   ELSE /\ json_rpc_response' = d.value
                        /\ pc' = "check"
                        /\ UNCHANGED outcome
       IN  Decoded(DecodeEnvelope(response))

\* isinstance(json_rpc_response, dict) and json_rpc_response.get("error")
HasError(env) == IsDict(env) /\ Truthy(DictGet(env, kError, JNull))

\* the check for an error member
CheckError ==
    /\ pc = "check"
    /\ trace' = Append(trace, "check_error")
    /\ UNCHANGED <<base_url_arg, base_url, call, sent, op_outcome, suspended>>
    /\ UNCHANGED <<exchange, response, json_rpc_response, result, js_text>>
    /\ IF HasError(json_rpc_response)
           THEN Raise(Raised("ValueError", "check_error", json_rpc_response.v[kError]))
           ELSE pc' = "layer2" /\ UNCHANGED outcome

\* the result taken from the envelope, the envelope itself when it has none
TakeResultOrEnvelope(env) == IF IsDict(env) THEN DictGet(env, kResult, env) ELSE EmptyDict

\* json_rpc_response.get("result", {}) if isinstance(json_rpc_response, dict) else {}
TakeResult(env) == IF IsDict(env) THEN DictGet(env, kResult, EmptyDict) ELSE EmptyDict

\* the routing of layer 2 looking at the last content block instead of the first
RouteLastBlock(res) ==
    IF ~IsDict(res) THEN Raised("AttributeError", "layer2", res)
    ELSE LET content == DictGet(res, kContent, JArr(<<>>))
         IN  IF ~Truthy(content) THEN [status |-> "result"]
             ELSE IF content.t \in {"num", "float", "bool"}
                 THEN Raised("TypeError", "layer2", content)
             ELSE IF content.t = "obj" THEN Raised("KeyError", "layer2", content)
             ELSE IF content.t = "str" THEN Raised("AttributeError", "layer2", content)
             ELSE LET last == content.v[Len(content.v)]
                  IN  IF ~IsDict(last) THEN Raised("AttributeError", "layer2", last)
                      ELSE IF JEq(DictGet(last, kType, JNull), JStr(kText))
                          THEN [status |-> "text", value |-> DictGet(last, kText, JStr(<<"{", "}">>))]
                      ELSE [status |-> "result"]

\* the routing of layer 2 reading content[0]["text"] without a default
RouteTextRequired(res) ==
    IF ~IsDict(res) THEN Raised("AttributeError", "layer2", res)
    ELSE LET content == DictGet(res, kContent, JArr(<<>>))
         IN  IF ~Truthy(content) THEN [status |-> "result"]
             ELSE IF content.t \in {"num", "float", "bool"}
                 THEN Raised("TypeError", "layer2", content)
             ELSE IF content.t = "obj" THEN Raised("KeyError", "layer2", content)
             ELSE IF content.t = "str" THEN Raised("AttributeError", "layer2", content)
             ELSE IF ~IsDict(content.v[1]) THEN Raised("AttributeError", "layer2", content.v[1])
             ELSE IF JEq(DictGet(content.v[1], kType, JNull), JStr(kText))
                 THEN IF kText \in DOMAIN content.v[1].v
                          THEN [status |-> "text", value |-> content.v[1].v[kText]]
                          ELSE Raised("KeyError", "layer2", content.v[1])
             ELSE [status |-> "result"]

\* content and len(content) > 0 and content[0].get("type") == "text", on
\* content = result.get("content", []): the text to parse ("text"), the result
\* to return ("result"), or the exception the expression raises
Route(res) ==
    IF ~IsDict(res) THEN Raised("AttributeError", "layer2", res)
    ELSE LET content == DictGet(res, kContent, JArr(<<>>))
         IN  IF ~Truthy(content) THEN [status |-> "result"]
             ELSE IF content.t \in {"num", "float", "bool"}
                 THEN Raised("TypeError", "layer2", content)
             ELSE IF content.t = "obj" THEN Raised("KeyError", "layer2", content)
             ELSE IF content.t = "str" THEN Raised("AttributeError", "layer2", content)
             ELSE IF ~IsDict(content.v[1]) THEN Raised("AttributeError", "layer2", content.v[1])
             ELSE IF JEq(DictGet(content.v[1], kType, JNull), JStr(kText))
                 THEN [status |-> "text", value |-> DictGet(content.v[1], kText, JStr(<<"{", "}">>))]
             ELSE [status |-> "result"]

\* Layer 2: take result and content, then return result or go on to layer 3
Layer2 ==
    /\ pc = "layer2"
    /\ trace' = Append(trace, "layer2")
    /\ UNCHANGED <<base_url_arg, base_url, call, sent, op_outcome, suspended>>
    /\ UNCHANGED <<exchange, response, json_rpc_response>>
    /\ result' = TakeResult(json_rpc_response)
    /\ LET r == Route(TakeResult(json_rpc_response))
       IN  CASE r.status = "raised" -> Raise(r) /\ UNCHANGED js_text
             [] r.status = "result" ->
                  Return(TakeResult(json_rpc_response)) /\ UNCHANGED js_text
             [] r.status = "text" ->
                  /\ js_text' = r.value
                  /\ pc' = "layer3"
                  /\ UNCHANGED outcome

\* Layer 3: return self._parse_js_object(js_text)
Layer3 ==
    /\ pc = "layer3"
    /\ trace' = Append(trace, "parse_js_object")
    /\ UNCHANGED <<base_url_arg, base_url, call, sent, op_outcome, suspended>>
    /\ UNCHANGED <<exchange, response, json_rpc_response, result, js_text>>
    /\ LET r == ParseJsObject(js_text)
       IN  IF r.status = "raised" THEN Raise(r) ELSE Return(r.value)

\* what a public operation does with the outcome of _call_tool: an exception
\* passes through, and the data returned is handed to model_validate
Validated(cls) ==
    IF outcome.status = "raised" THEN outcome
    ELSE LET Entity(v) == IF v.ok THEN Returned(v.val)
                          ELSE Raised("ValidationError", "model_validate", outcome.value)
         IN  Entity(IF cls = "Track" THEN TrackModelValidate(outcome.value)
                    ELSE ClipModelValidate(outcome.value))

\* the public operation ends with o
Finish(o) ==
    /\ pc = "done"
    /\ pc' = "finished"
    /\ op_outcome' = o
    /\ UNCHANGED <<base_url_arg, base_url, call, sent, suspended, exchange, response,
                   json_rpc_response, result, js_text, outcome, trace>>

\* get_project_info: return self._call_tool("ppal-read-live-set", {})
GetProjectInfo ==
    /\ call.op = "get_project_info"
    /\ Finish(outcome)

\* get_track: return Track.model_validate(data)
GetTrack ==
    /\ call.op = "get_track"
    /\ Finish(Validated("Track"))

\* create_midi_clip: return Clip.model_validate(data)
CreateMidiClip ==
    /\ call.op = "create_midi_clip"
    /\ Finish(Validated("Clip"))

\* get_clip: return Clip.model_validate(data)
GetClip ==
    /\ call.op = "get_clip"
    /\ Finish(Validated("Clip"))

\* the caller makes the next call on the same client
NextCall ==
    /\ pc = "finished"
    /\ call' \in Calls
    /\ sent' = <<>>
    /\ op_outcome' = Running
    /\ UNCHANGED suspended
    /\ pc' = "ready"
    /\ exchange' = NoExchange
    /\ response' = NoResponse
    /\ json_rpc_response' = Unset
    /\ result' = Unset
    /\ js_text' = Unset
    /\ outcome' = Running
    /\ trace' = <<>>
    /\ UNCHANGED <<base_url_arg, base_url>>

Next ==
    \/ Post \/ RaiseForStatus \/ Layer1 \/ CheckError \/ Layer2 \/ Layer3
    \/ GetProjectInfo \/ GetTrack \/ CreateMidiClip \/ GetClip
    \/ NextCall

Spec == Init /\ [][Next]_vars

\* ------------------------------------------------- two calls at the same time

\* the frame of the running call
RunningFrame ==
    Frame(call, sent, op_outcome, pc, exchange, response, json_rpc_response, result,
          js_text, outcome, trace)

\* a switch between two calls that keep the decoded envelope in one place
\* shared by both, as an attribute of the client would be
SwitchSharingEnvelope ==
    /\ suspended.pc # "none"
    /\ suspended' = RunningFrame
    /\ call' = suspended.call
    /\ sent' = suspended.sent
    /\ op_outcome' = suspended.op_outcome
    /\ pc' = suspended.pc
    /\ exchange' = suspended.exchange
    /\ response' = suspended.response
    /\ result' = suspended.result
    /\ js_text' = suspended.js_text
    /\ outcome' = suspended.outcome
    /\ trace' = suspended.trace
    /\ UNCHANGED <<base_url_arg, base_url, json_rpc_response>>

\* two calls on one client from two threads: the running call is suspended
\* at any step and the other call goes on with its own locals; self.base_url
\* is the only state they share
Switch ==
    /\ suspended.pc # "none"
    /\ suspended' = RunningFrame
    /\ call' = suspended.call
    /\ sent' = suspended.sent
    /\ op_outcome' = suspended.op_outcome
    /\ pc' = suspended.pc
    /\ exchange' = suspended.exchange
    /\ response' = suspended.response
    /\ json_rpc_response' = suspended.json_rpc_response
    /\ result' = suspended.result
    /\ js_text' = suspended.js_text
    /\ outcome' = suspended.outcome
    /\ trace' = suspended.trace
    /\ UNCHANGED <<base_url_arg, base_url>>

\* the calls two threads make at the same time
ConcurrentCalls ==
    {[op |-> "get_track", track_id |-> 1, clip_id |-> 0, notes |-> <<>>],
     [op |-> "create_midi_clip", track_id |-> 1, clip_id |-> 0, notes |-> <<noteDefaults>>],
     [op |-> "get_clip", track_id |-> 1, clip_id |-> 1, notes |-> <<>>]}

\* one client, one call about to start in each of two threads
InitConcurrent ==
    /\ base_url_arg = urlPath \o <<"/">>
    /\ base_url = RStripSlash(base_url_arg)
    /\ call \in ConcurrentCalls
    /\ sent = <<>>
    /\ op_outcome = Running
    /\ suspended \in {NewFrame(c) : c \in ConcurrentCalls}
    /\ pc = "ready"
    /\ exchange = NoExchange
    /\ response = NoResponse
    /\ json_rpc_response = Unset
    /\ result = Unset
    /\ js_text = Unset
    /\ outcome = Running
    /\ trace = <<>>

NextConcurrent ==
    \/ Post \/ RaiseForStatus \/ Layer1 \/ CheckError \/ Layer2 \/ Layer3
    \/ GetTrack \/ CreateMidiClip \/ GetClip
    \/ Switch

SpecConcurrent == InitConcurrent /\ [][NextConcurrent]_vars

\* ------------------------------------------------------ the terms of the claims

\* the error kind of the taxonomy that a raised exception stands for, by its
\* class and the place that raised it
ErrorKind(o) ==
    CASE o.exc = "ConnectionError" -> "ConnectionFailure"
      [] o.exc = "HTTPError" -> "TransportError"
      [] o.site \in {"parse_sse", "response_json"} -> "FramingError"
      [] o.site = "check_error" /\ o.exc = "ValueError" -> "ProtocolError"
      [] o.site = "parse_js_object" /\ o.exc = "JSONDecodeError" -> "NotationError"
      [] OTHER -> "Unclassified"

Taxonomy ==
    {"ConnectionFailure", "TransportError", "FramingError", "ProtocolError",
     "NotationError", "SchemaValidationError"}

\* _call_tool has ended
Done == pc \in {"done", "finished"}
Ran(step) == \E i \in 1..Len(trace) : trace[i] = step
FailedWith(kind) == Done /\ outcome.status = "raised" /\ ErrorKind(outcome) = kind
ReturnedValue(val) == Done /\ outcome.status = "returned" /\ JEq(outcome.value, val)

\* the decoded envelope is a mapping with member key
EnvelopeHas(key) == json_rpc_response.t = "obj" /\ key \in DOMAIN json_rpc_response.v

\* the decoded envelope carries an error member that is not null
NonNullError == EnvelopeHas(kError) /\ json_rpc_response.v[kError].t # "null"

\* C1: whenever the decoded envelope has a non-null error member, the call
\* fails with a ProtocolError that carries that error, and returns nothing,
\* with or without a result member.
C1_NonNullErrorIsProtocolError ==
    (Done /\ NonNullError) =>
        /\ FailedWith("ProtocolError")
        /\ JEq(outcome.payload, json_rpc_response.v[kError])

\* C2: a plain-JSON response whose envelope has no error and a result member
\* without a content field returns exactly that result, and layer 3 never runs.
C2_ResultWithoutContentReturned ==
    (/\ Done
     /\ ~IsEventStream(response)
     /\ EnvelopeHas(kResult)
     /\ ~NonNullError
     /\ ~(json_rpc_response.v[kResult].t = "obj"
            /\ kContent \in DOMAIN json_rpc_response.v[kResult].v)) =>
        /\ ReturnedValue(json_rpc_response.v[kResult])
        /\ ~Ran("parse_js_object")

\* the first line among lines that begins with "data: ", decoded after the
\* prefix; not ok when there is no such line or its remainder is no JSON
DataLineDecoded(lines) ==
    LET hits == {i \in 1..Len(lines) : StartsWith(lines[i], DataPrefix)}
    IN  IF hits = {} THEN [ok |-> FALSE, val |-> JNull]
        ELSE LET line == lines[CHOOSE i \in hits : \A k \in hits : i <= k]
             IN  JsonLoads(SubSeq(line, 7, Len(line)))

\* the Content-Type header names the event-stream media type
IndicatesEventStream(r) ==
    \E i \in 1..Len(r.headers) :
        /\ r.headers[i][1] = "Content-Type"
        /\ r.headers[i][2] \in {ctEventStream, ctEventStreamCharset}

Layer1Ran == Ran("parse_sse") \/ Ran("response_json")

\* layer 1 ended as expected: the envelope is the expected value, or the call
\* failed with a FramingError and decoded no envelope
Layer1Gave(expected) ==
    IF expected.ok
        THEN json_rpc_response.t # "unset" /\ JEq(json_rpc_response, expected.val)
        ELSE json_rpc_response.t = "unset" /\ FailedWith("FramingError")

\* C3 as claimed: with event-stream framing the envelope is the remainder of
\* the first line of the body that begins with "data: ", and a body with no
\* such line fails with a FramingError; otherwise the whole body is decoded.
C3_FirstDataLineOfBody ==
    Layer1Ran =>
        IF IndicatesEventStream(response)
            THEN Layer1Gave(DataLineDecoded(SplitLines(response.text)))
            ELSE Layer1Gave(JsonLoads(response.text))

\* C3 amended: the body is first stripped of leading and trailing whitespace;
\* the envelope is the remainder of the first line of the stripped body that
\* begins with "data: ", and a stripped body with no such line fails with a
\* FramingError; without event-stream framing the whole body is decoded.
C3_FirstDataLineOfStrippedBody ==
    Layer1Ran =>
        IF IndicatesEventStream(response)
            THEN Layer1Gave(DataLineDecoded(SplitLines(Strip(response.text))))
            ELSE Layer1Gave(JsonLoads(response.text))

\* C3 witness: an event-stream body that starts with whitespace was decoded
\* to an envelope
C3_Witness ==
    /\ Ran("parse_sse")
    /\ response.text # <<>>
    /\ Head(response.text) \in StripChars
    /\ json_rpc_response.t = "obj"

\* the result member of an envelope without a non-null error, when a mapping
WellFormedResult ==
    /\ Ran("layer2")
    /\ ~NonNullError
    /\ EnvelopeHas(kResult)
    /\ json_rpc_response.v[kResult].t = "obj"

ResultMember == json_rpc_response.v[kResult]
ContentMember == ResultMember.v[kContent]

\* content is a non-empty sequence whose first element is a mapping
FirstBlockIsMapping ==
    /\ kContent \in DOMAIN ResultMember.v
    /\ ContentMember.t = "arr"
    /\ ContentMember.v # <<>>
    /\ ContentMember.v[1].t = "obj"

\* the first block has type "text" and a text field that is a string
FirstBlockIsText ==
    /\ FirstBlockIsMapping
    /\ kType \in DOMAIN ContentMember.v[1].v
    /\ ContentMember.v[1].v[kType].t = "str"
    /\ ContentMember.v[1].v[kType].v = kText
    /\ kText \in DOMAIN ContentMember.v[1].v
    /\ ContentMember.v[1].v[kText].t = "str"

\* the first block is a mapping whose type is missing or is not "text"
FirstBlockIsNotText ==
    /\ FirstBlockIsMapping
    /\ \/ kType \notin DOMAIN ContentMember.v[1].v
       \/ ContentMember.v[1].v[kType].t # "str"
       \/ ContentMember.v[1].v[kType].v # kText

ContentAbsentOrEmpty ==
    \/ kContent \notin DOMAIN ResultMember.v
    \/ ContentMember.t = "arr" /\ ContentMember.v = <<>>

\* the call ended as the operation's outcome o: the same value returned, or
\* the same exception raised at the same place
EndedAs(o) ==
    /\ Done
    /\ outcome.status = o.status
    /\ IF o.status = "returned"
           THEN JEq(outcome.value, o.value)
           ELSE outcome.exc = o.exc /\ outcome.site = o.site

\* C4: for an envelope without error whose result is a mapping: when the first
\* content block has type "text", the call ends as layer 3 ends on that
\* block's text, whatever the later blocks are; when content is absent or
\* empty, or the first block's type is not "text", the result mapping is
\* returned and layer 3 does not run.
C4_Stage2Routing ==
    (Done /\ WellFormedResult) =>
        /\ FirstBlockIsText =>
             /\ Ran("parse_js_object")
             /\ EndedAs(ParseJsObject(ContentMember.v[1].v[kText]))
        /\ (ContentAbsentOrEmpty \/ FirstBlockIsNotText) =>
             /\ ReturnedValue(ResultMember)
             /\ ~Ran("parse_js_object")

\* C4 witness: a result with two blocks, the first a text block, whose text
\* was parsed and returned
C4_Witness ==
    /\ Done
    /\ WellFormedResult
    /\ FirstBlockIsText
    /\ Len(ContentMember.v) = 2
    /\ outcome.status = "returned"
    /\ Ran("parse_js_object")

\* C5: a text that is standard JSON already (every key quoted) parses, after
\* the bare-key quoting, to the mapping it parses to directly.
C5_QuotedJsonUnchanged ==
    (Done /\ Ran("parse_js_object") /\ js_text.t = "str" /\ JsonLoads(js_text.v).ok) =>
        ReturnedValue(JsonLoads(js_text.v).val)

\* JSON in which an object key may also be a bare identifier that a colon
\* follows immediately: the notation layer 3 is meant to read
RECURSIVE LenientValue(_, _)
RECURSIVE LenientElements(_, _, _)
RECURSIVE LenientMembers(_, _, _)

LenientValue(s, i) ==
    IF i > Len(s) THEN ParseFail(i)
    ELSE IF s[i] = "{" THEN
        LET j == SkipWs(s, i + 1)
        IN  IF j <= Len(s) /\ s[j] = "}" THEN ParseOk(EmptyDict, j + 1)
            ELSE LenientMembers(s, j, <<>>)
    ELSE IF s[i] = "[" THEN
        LET j == SkipWs(s, i + 1)
        IN  IF j <= Len(s) /\ s[j] = "]" THEN ParseOk(JArr(<<>>), j + 1)
            ELSE LenientElements(s, j, <<>>)
    ELSE ScanValue(s, i)

LenientElements(s, i, acc) ==
    LET r == LenientValue(s, i)
        j == SkipWs(s, r.pos)
    IN  IF ~r.ok \/ j > Len(s) THEN ParseFail(i)
        ELSE IF s[j] = "," THEN LenientElements(s, SkipWs(s, j + 1), Append(acc, r.val))
        ELSE IF s[j] = "]" THEN ParseOk(JArr(Append(acc, r.val)), j + 1)
        ELSE ParseFail(j)

LenientMembers(s, i, acc) ==
    IF i > Len(s) THEN ParseFail(i)
    ELSE
        LET bare == s[i] \in WordChars
            k == IF bare
                     THEN ParseOk(SubSeq(s, i, FirstNotIn(s, i, WordChars) - 1),
                                  FirstNotIn(s, i, WordChars))
                     ELSE IF s[i] = QUOTE THEN ScanString(s, i + 1, <<>>) ELSE ParseFail(i)
            c == IF bare THEN k.pos ELSE SkipWs(s, k.pos)
        IN  IF ~k.ok \/ c > Len(s) \/ s[c] # ":" THEN ParseFail(i)
            ELSE
                LET r == LenientValue(s, SkipWs(s, c + 1))
                    j == SkipWs(s, r.pos)
                IN  IF ~r.ok \/ j > Len(s) THEN ParseFail(i)
                    ELSE IF s[j] = "," THEN
                        LenientMembers(s, SkipWs(s, j + 1), DictPut(acc, k.val, r.val))
                    ELSE IF s[j] = "}" THEN
                        ParseOk(JObj(DictPut(acc, k.val, r.val)), j + 1)
                    ELSE ParseFail(j)

LenientLoads(s) ==
    LET r == LenientValue(s, SkipWs(s, 1))
    IN  IF r.ok /\ SkipWs(s, r.pos) > Len(s)
            THEN [ok |-> TRUE, val |-> r.val]
            ELSE [ok |-> FALSE, val |-> JNull]

\* C6: a text that is JSON except for bare-identifier keys parses to the
\* mapping it denotes: bare keys quoted, quoted keys and every string value
\* unchanged.
C6_BareKeysQuotedValuesKept ==
    (Done /\ Ran("parse_js_object") /\ js_text.t = "str" /\ LenientLoads(js_text.v).ok) =>
        ReturnedValue(LenientLoads(js_text.v).val)

\* C7: a value that _call_tool returns is a mapping.
C7_ReturnsMapping ==
    (Done /\ outcome.status = "returned") => outcome.value.t = "obj"

\* C8, for the calls that received a response: a call that fails, fails with
\* one of the six kinds of the taxonomy.
C8_FailuresInTaxonomy ==
    (Done /\ outcome.status = "raised" /\ exchange.phase = "received") =>
        ErrorKind(outcome) \in Taxonomy

\* one phase of the HTTP exchange took longer than the request timeout
TimedOut == exchange.elapsed > Timeout

C10_ConnectionFailureIffTransport ==
    Done =>
        /\ FailedWith("ConnectionFailure") <=>
               exchange.raised \in {"RequestsConnectionError", "ConnectTimeout"}
        /\ FailedWith("ConnectionFailure") =>
               /\ outcome.payload.base_url = base_url
               /\ outcome.payload.cause.exc = exchange.raised
        /\ exchange.phase = "received" => ~FailedWith("ConnectionFailure")

\* C10 witness: a refused connection ended the call with a ConnectionFailure
C10_Witness ==
    /\ FailedWith("ConnectionFailure")
    /\ exchange.phase = "connect"
    /\ exchange.raised = "RequestsConnectionError"
    /\ outcome.payload.base_url = base_url

\* no decoding stage has run: nothing was framed, unwrapped or parsed
NothingDecoded ==
    /\ ~Layer1Ran
    /\ ~Ran("check_error")
    /\ ~Ran("layer2")
    /\ ~Ran("parse_js_object")
    /\ json_rpc_response = Unset
    /\ result = Unset
    /\ js_text = Unset

\* the call failed with a TransportError that carries the status and the body
FailedWithTransportError ==
    /\ FailedWith("TransportError")
    /\ outcome.payload.status_code = response.status_code
    /\ outcome.payload.text = response.text

\* C11 as claimed: a call that received a response whose status is not a
\* success status (2xx) ends with a TransportError carrying status and body,
\* and no decoding stage has run.
C11_NonSuccessIsTransportError ==
    (/\ Done
     /\ Ran("raise_for_status")
     /\ ~(200 <= response.status_code /\ response.status_code < 300)) =>
        FailedWithTransportError /\ NothingDecoded

\* C11 for error statuses: once the status of a response has been looked
\* at, a response with an error status (4xx or 5xx) has made the call fail
\* with a TransportError carrying status and body, and no decoding stage
\* ran, whatever the body holds; a response with any other status is decoded.
C11_ErrorStatusIsTransportError ==
    Ran("raise_for_status") =>
        IF 400 <= response.status_code /\ response.status_code < 600
            THEN FailedWithTransportError /\ NothingDecoded
            ELSE ~FailedWith("TransportError") /\ (Done => Layer1Ran)

\* a 404 response whose body is a decodable envelope with a result ended the
\* call with a TransportError
C11_NotFoundWithEnvelope ==
    /\ response.status_code = 404
    /\ JsonLoads(response.text).ok
    /\ JsonLoads(response.text).val.t = "obj"
    /\ kResult \in DOMAIN JsonLoads(response.text).val.v
    /\ FailedWith("TransportError")

\* the public operation has ended
Finished == pc = "finished"

\* C12: one call, one outcome. A call that has passed requests.post has
\* handed it exactly one request, and no call ever hands it a second one; a
\* call that has ended has exactly one outcome, a returned value or a raised
\* error, and a call still in progress has none; once _call_tool has raised
\* (connection, status, framing, protocol or notation failure) or validation
\* has failed, the operation ends with that error and returns no value.
C12_OnePostOneOutcome ==
    /\ Len(sent) = (IF pc = "ready" THEN 0 ELSE 1)
    /\ IF Finished THEN op_outcome.status \in {"returned", "raised"}
       ELSE op_outcome = Running
    /\ (Finished /\ outcome.status = "raised") => op_outcome = outcome
    /\ (Finished /\ op_outcome.status = "returned") => outcome.status = "returned"

\* C12 witness: a call that failed after its request was sent has ended with
\* the error, with one request sent
C12_Witness ==
    /\ Finished
    /\ Len(sent) = 1
    /\ op_outcome.status = "raised"
    /\ exchange.phase = "received"

\* the entity schema of the value a public operation returns
SchemaOf(c) ==
    CASE c.op = "get_project_info" -> "ProjectInfo"
      [] c.op = "get_track" -> "Track"
      [] c.op \in {"create_midi_clip", "get_clip"} -> "Clip"

\* model_validate of the schema cls on the decoded data x
ModelValidate(cls, x) ==
    CASE cls = "ProjectInfo" -> ProjectInfoModelValidate(x)
      [] cls = "Track" -> TrackModelValidate(x)
      [] cls = "Clip" -> ClipModelValidate(x)

\* C13: every value a public operation returns has passed validation against
\* the schema of the operation (ProjectInfo for get_project_info, Track for
\* get_track, Clip for create_midi_clip and get_clip): when _call_tool
\* returned data, the operation returns if the data satisfies the schema and
\* raises the validation error if it does not.
C13_ReturnedValuesValidated ==
    (Finished /\ outcome.status = "returned") =>
        IF ModelValidate(SchemaOf(call), outcome.value).ok
            THEN op_outcome.status = "returned"
            ELSE op_outcome.status = "raised" /\ op_outcome.exc = "ValidationError"

\* C13 for the operations that hand the data to model_validate
C13_EntityOperationsValidated ==
    (Finished /\ outcome.status = "returned" /\ call.op # "get_project_info") =>
        IF ModelValidate(SchemaOf(call), outcome.value).ok
            THEN op_outcome.status = "returned"
            ELSE op_outcome.status = "raised" /\ op_outcome.exc = "ValidationError"

\* the text v is two integer-parsable parts around one separator sep
TwoIntegerParts(v, sep) ==
    \E i \in 1..Len(v) :
        /\ v[i] = sep
        /\ \A j \in 1..Len(v) : v[j] = sep => j = i
        /\ IntParsable(SubSeq(v, 1, i - 1))
        /\ IntParsable(SubSeq(v, i + 1, Len(v)))

\* the member key of the decoded mapping x is a text that is not two
\* integer-parsable parts around sep
BadComposite(x, key, sep) ==
    /\ IsDict(x)
    /\ key \in DOMAIN x.v
    /\ x.v[key].t = "str"
    /\ ~TwoIntegerParts(x.v[key].v, sep)

\* the decoded clip x has a composite field in a wrong format: its length,
\* or the start or the duration of one of its notes
ClipHasBadComposite(x) ==
    \/ BadComposite(x, kLength, ":")
    \/ /\ IsDict(x)
       /\ kNotes \in DOMAIN x.v
       /\ x.v[kNotes].t = "arr"
       /\ \E i \in 1..Len(x.v[kNotes].v) :
              \/ BadComposite(x.v[kNotes].v[i], kStart, "|")
              \/ BadComposite(x.v[kNotes].v[i], kDuration, ":")

\* C14: composite-format validation. A Clip is returned only with a length
\* of two integer-parsable parts around ":", and each of its notes only with
\* a start of two integer-parsable parts around "|" and a duration of two
\* integer-parsable parts around ":", each the very text received; decoded
\* data in which one of these texts has another form ends in a validation
\* failure, never in a value.
C14_CompositeFormats ==
    (Finished /\ call.op \in {"create_midi_clip", "get_clip"} /\ outcome.status = "returned") =>
        /\ op_outcome.status = "returned" =>
              /\ TwoIntegerParts(op_outcome.value.length, ":")
              /\ op_outcome.value.length = outcome.value.v[kLength].v
              /\ \A i \in 1..Len(op_outcome.value.notes) :
                    /\ TwoIntegerParts(op_outcome.value.notes[i].start, "|")
                    /\ TwoIntegerParts(op_outcome.value.notes[i].duration, ":")
                    /\ op_outcome.value.notes[i].start = outcome.value.v[kNotes].v[i].v[kStart].v
                    /\ op_outcome.value.notes[i].duration =
                           outcome.value.v[kNotes].v[i].v[kDuration].v
        /\ ClipHasBadComposite(outcome.value) =>
              op_outcome.status = "raised" /\ op_outcome.exc = "ValidationError"

\* C14 witness: a clip whose one note has the duration "four:zero" and whose
\* other fields are well formed was refused
C14_Witness ==
    /\ Finished
    /\ call.op = "get_clip"
    /\ outcome.status = "returned"
    /\ IsDict(outcome.value)
    /\ kNotes \in DOMAIN outcome.value.v
    /\ outcome.value.v[kNotes].t = "arr"
    /\ Len(outcome.value.v[kNotes].v) = 1
    /\ BadComposite(outcome.value.v[kNotes].v[1], kDuration, ":")
    /\ outcome.value.v[kNotes].v[1].v[kDuration].v = <<"f", "o", "u", "r", ":", "z", "e", "r", "o">>
    /\ ~BadComposite(outcome.value, kLength, ":")
    /\ op_outcome.status = "raised"
    /\ op_outcome.exc = "ValidationError"

\* the notes of the request sent, as the remote side reads them
SentNotes == sent[1].json.v[kParams].v[kArguments].v[kNotes].v

\* the sent mapping x is the note n: exactly pitch, start, duration, velocity
\* and probability, with the values of n
IsNoteSent(x, n) ==
    /\ IsDict(x)
    /\ DOMAIN x.v = {kPitch, kStart, kDuration, kVelocity, kProbability}
    /\ x.v[kPitch] = JStr(n.pitch)
    /\ x.v[kStart] = JStr(n.start)
    /\ x.v[kDuration] = JStr(n.duration)
    /\ x.v[kVelocity] = JNum(n.velocity)
    /\ JEq(x.v[kProbability], JFloat(n.probability[1], n.probability[2]))

\* the notes were sent in the given order, defaults filled in
NotesSentInOrder ==
    /\ Len(SentNotes) = Len(call.notes)
    /\ \A i \in 1..Len(call.notes) : IsNoteSent(SentNotes[i], call.notes[i])

\* the response echoes the notes of the call in a Clip, as the result itself
DirectEchoes(notes) == {Plain(EchoClip(FALSE, notes)), Streamed(EchoClip(FALSE, notes))}

\* the response echoes the notes of the call in a Clip, in a text block
TextEchoes(notes) ==
    {Plain(InText(EchoClip(TRUE, notes))), Streamed(InText(EchoClip(TRUE, notes))),
     Plain(InText(EchoClip(FALSE, notes)))}

\* the operation returned a Clip whose notes are the notes of the call, in
\* order, with their pitch, start, duration and velocity
ReturnedNotesOfCall ==
    /\ op_outcome.status = "returned"
    /\ Len(op_outcome.value.notes) = Len(call.notes)
    /\ \A i \in 1..Len(call.notes) :
          /\ op_outcome.value.notes[i].pitch = call.notes[i].pitch
          /\ op_outcome.value.notes[i].start = call.notes[i].start
          /\ op_outcome.value.notes[i].duration = call.notes[i].duration
          /\ op_outcome.value.notes[i].velocity = call.notes[i].velocity

\* C15: create-clip round trip. A create_midi_clip call has sent its notes
\* in the given order, each as {pitch, start, duration, velocity,
\* probability}; and when the response echoes them in a Clip, in either
\* framing, as the result mapping or in a text block, the call returns a Clip
\* with the same notes in the same order.
C15_EchoRoundTrip ==
    (call.op = "create_midi_clip" /\ pc # "ready") =>
        /\ NotesSentInOrder
        /\ (Finished /\ response \in DirectEchoes(call.notes) \cup TextEchoes(call.notes)) =>
              ReturnedNotesOfCall

\* C15 for echoes that are the result mapping itself
C15_DirectEchoRoundTrip ==
    (call.op = "create_midi_clip" /\ pc # "ready") =>
        /\ NotesSentInOrder
        /\ (Finished /\ response \in DirectEchoes(call.notes)) => ReturnedNotesOfCall

\* the configured base URL without its trailing slashes
BaseWithoutTrailingSlashes ==
    SubSeq(base_url_arg, 1,
           CHOOSE n \in 0..Len(base_url_arg) :
               /\ \A i \in (n + 1)..Len(base_url_arg) : base_url_arg[i] = "/"
               /\ n > 0 => base_url_arg[n] # "/")

\* the procedure name and the argument mapping the operation of call passes
ProcedureOfCall ==
    CASE call.op = "get_project_info" -> toolReadLiveSet
      [] call.op = "get_track" -> toolReadTrack
      [] call.op = "create_midi_clip" -> toolCreateClip
      [] call.op = "get_clip" -> toolReadClip

ArgumentsOfCall(args) ==
    /\ IsDict(args)
    /\ CASE call.op = "get_project_info" -> DOMAIN args.v = {}
         [] call.op = "get_track" ->
              /\ DOMAIN args.v = {kTrackId}
              /\ args.v[kTrackId] = JNum(call.track_id)
         [] call.op = "create_midi_clip" ->
              /\ DOMAIN args.v = {kTrackId, kNotes}
              /\ args.v[kTrackId] = JNum(call.track_id)
              /\ args.v[kNotes].t = "arr"
              /\ NotesSentInOrder
         [] call.op = "get_clip" ->
              /\ DOMAIN args.v = {kTrackId, kClipId}
              /\ args.v[kTrackId] = JNum(call.track_id)
              /\ args.v[kClipId] = JNum(call.clip_id)

CallToolAlone(x, r) ==
    IF x.raised # "none" THEN Except(Raised(x.raised, "post", <<>>))
    ELSE IF 400 <= r.status_code /\ r.status_code < 600
        THEN Except(Raised("HTTPError", "raise_for_status", r))
    ELSE LET Parsed(p) == IF p.status = "raised" THEN Except(p) ELSE p
             Routed(res, t) ==
                 CASE t.status = "raised" -> Except(t)
                   [] t.status = "result" -> Returned(res)
                   [] t.status = "text" -> Parsed(ParseJsObject(t.value))
             Unwrapped(res) == Routed(res, Route(res))
             Decoded(d) ==
                 IF d.status = "raised" THEN Except(d)
                 ELSE IF HasError(d.value)
                     THEN Except(Raised("ValueError", "check_error", d.value.v[kError]))
                 ELSE Unwrapped(TakeResult(d.value))
         IN  Decoded(DecodeEnvelope(r))

\* the outcome of the public operation of call c run alone
OperationAlone(c, x, r) ==
    LET Entity(data, v) ==
            IF v.ok THEN Returned(v.val)
            ELSE Raised("ValidationError", "model_validate", data)
        Ended(o) ==
            IF o.status = "raised" \/ c.op = "get_project_info" THEN o
            ELSE Entity(o.value, ModelValidate(SchemaOf(c), o.value))
    IN  Ended(CallToolAlone(x, r))

\* C17: statelessness and reentrancy. However the steps of two calls on one
\* client are interleaved, a call that has ended has the outcome of the same
\* operation run alone on what the transport did for it and on its own
\* response, and the base URL of the client is still the one it was
\* constructed with.
C17_OutcomeAsAlone ==
    /\ Finished => op_outcome = OperationAlone(call, exchange, response)
    /\ suspended.pc = "finished" =>
          suspended.op_outcome =
              OperationAlone(suspended.call, suspended.exchange, suspended.response)
    /\ base_url = RStripSlash(base_url_arg)

\* C17 witness: a create_midi_clip call has run from its request to the
\* returned Clip while a get_track call on the same client, answered with
\* another response, stands between its layer 2 and its layer 3
C17_Witness ==
    /\ Finished
    /\ call.op = "create_midi_clip"
    /\ op_outcome.status = "returned"
    /\ suspended.call.op = "get_track"
    /\ suspended.pc = "layer3"
    /\ suspended.response.text # response.text

\* responses whose body Stage 1 cannot decode: an event-stream data line
\* that is no JSON, a plain body that is no JSON, a stream without data line
MalformedStage1Responses ==
    {Answer(200, ctEventStream, DataPrefix \o QuoteBareKeys(txtBroken)),
     Answer(200, ctJson, QuoteBareKeys(txtBroken)),
     Answer(200, ctEventStream, eventLine \o <<NL, NL>>)}

\* the exceptions Stage 1 raises on them
FramingFailures == {DecodeEnvelope(r) : r \in MalformedStage1Responses}

\* the text handed to layer 3 is no JSON after the bare keys are quoted
NotationFails ==
    /\ Done
    /\ Ran("parse_js_object")
    /\ js_text.t = "str"
    /\ ~JsonLoads(QuoteBareKeys(js_text.v)).ok

\* C18: a text content block whose text is no JSON after bare-key quoting
\* makes the call fail with an error that carries the offending text, and
\* whose kind is the kind of no Stage 1 failure and not the kind of a remote
\* error: the class of the exception raised is the class of no exception
\* that Stage 1 raises on a malformed body nor of the one raised for a remote
\* error, so that the caller can tell the stage; no value is returned.
C18_NotationErrorDistinct ==
    NotationFails =>
        /\ outcome.status = "raised"
        /\ outcome.payload = QuoteBareKeys(js_text.v)
        /\ \A f \in FramingFailures : outcome.exc # f.exc
        /\ outcome.exc # "ValueError"

\* C18 without the distinct kind: the call fails with json.JSONDecodeError
\* carrying the text that was parsed, and returns nothing
C18_NotationFailureCarriesText ==
    NotationFails =>
        /\ outcome.status = "raised"
        /\ outcome.exc = "JSONDecodeError"
        /\ outcome.payload = QuoteBareKeys(js_text.v)
        /\ Finished => op_outcome = outcome

EnvelopeIsNoMapping == json_rpc_response.t \in {"arr", "str", "num", "float", "bool", "null"}

\* the first content block has type "text" and no text field
FirstBlockIsTextWithoutText ==
    /\ WellFormedResult
    /\ FirstBlockIsMapping
    /\ kType \in DOMAIN ContentMember.v[1].v
    /\ ContentMember.v[1].v[kType].t = "str"
    /\ ContentMember.v[1].v[kType].v = kText
    /\ kText \notin DOMAIN ContentMember.v[1].v

\* C20: silent defaults in Stage 2. A call whose response decoded to an
\* envelope that is no mapping (array, string, number, boolean, null) has
\* raised nothing and returned the empty mapping; and so has a call whose
\* first content block has type "text" but no text field.
C20_SilentDefaults ==
    (Done /\ (EnvelopeIsNoMapping \/ FirstBlockIsTextWithoutText)) =>
        /\ outcome.status = "returned"
        /\ outcome.value = EmptyDict

\* C20 witness: a first content block {"type": "text"} went through layer 3
\* and ended the call with the empty mapping
C20_Witness ==
    /\ Done
    /\ FirstBlockIsTextWithoutText
    /\ Ran("parse_js_object")
    /\ outcome.status = "returned"
    /\ outcome.value = EmptyDict

\* an envelope that is an array ended the call with the empty mapping
C20_WitnessNoMapping ==
    /\ Done
    /\ json_rpc_response.t = "arr"
    /\ outcome.status = "returned"
    /\ outcome.value = EmptyDict

====
